---- MODULE Spec2Model ----
\* SquadMindAI: the debate orchestrator (src/squad_logic.py), the four stock
\* personalities it drives (src/military_squad_advisor/personalities.py) and the
\* conversation memory it reads (src/memory.py).
\*
\* A Python str is modelled as the sequence of its characters, so that
\* str.lower(), the `in` substring test, str.split() and concatenation are
\* computed on the characters as Python computes them.  A dict is modelled as
\* the sequence of its items in insertion order.
EXTENDS Integers, Sequences, FiniteSets, TLC

\* ---------------------------------------------------------------------------
\* Python str operations
\* ---------------------------------------------------------------------------

\* the cased ASCII letters str.lower() changes
LowerMap ==
    "A" :> "a" @@ "B" :> "b" @@ "C" :> "c" @@ "D" :> "d" @@ "E" :> "e" @@
    "F" :> "f" @@ "G" :> "g" @@ "H" :> "h" @@ "I" :> "i" @@ "J" :> "j" @@
    "K" :> "k" @@ "L" :> "l" @@ "M" :> "m" @@ "N" :> "n" @@ "O" :> "o" @@
    "P" :> "p" @@ "Q" :> "q" @@ "R" :> "r" @@ "S" :> "s" @@ "T" :> "t" @@
    "U" :> "u" @@ "V" :> "v" @@ "W" :> "w" @@ "X" :> "x" @@ "Y" :> "y" @@
    "Z" :> "z"

\* s.lower()
lower(s) ==
    [i \in 1..Len(s) |-> IF s[i] \in DOMAIN LowerMap THEN LowerMap[s[i]] ELSE s[i]]

\* sub in s  (substring test)
contains(sub, s) ==
    \E i \in 0..(Len(s) - Len(sub)) :
        \A j \in 1..Len(sub) : s[i + j] = sub[j]

\* any(w in s for w in words)
contains_any(words, s) ==
    \E k \in 1..Len(words) : contains(words[k], s)

\* the characters str.split() with no argument treats as separators
Whitespace ==
    {" ", "\t", "\n", "\r", "\f"}

RECURSIVE split_from(_, _, _, _)
\* the scan of str.split(): cur is the token being read, acc the tokens read
split_from(s, i, cur, acc) ==
    IF i > Len(s)
    THEN IF cur = <<>> THEN acc ELSE Append(acc, cur)
    ELSE IF s[i] \in Whitespace
         THEN split_from(s, i + 1, <<>>, IF cur = <<>> THEN acc ELSE Append(acc, cur))
         ELSE split_from(s, i + 1, Append(cur, s[i]), acc)

\* s.split()
split(s) ==
    split_from(s, 1, <<>>, <<>>)

\* ---------------------------------------------------------------------------
\* Python dict (insertion ordered) and list operations
\* ---------------------------------------------------------------------------

\* k in d
has_key(d, k) ==
    \E i \in 1..Len(d) : d[i].key = k

\* d[k]
get(d, k) ==
    d[CHOOSE i \in 1..Len(d) : d[i].key = k].val

\* d[k] = v : an existing key keeps its position, a new key is appended
put(d, k, v) ==
    IF has_key(d, k)
    THEN [i \in 1..Len(d) |-> IF d[i].key = k THEN [key |-> k, val |-> v] ELSE d[i]]
    ELSE Append(d, [key |-> k, val |-> v])

\* list(d.keys())
keys(d) ==
    [i \in 1..Len(d) |-> d[i].key]

\* x in lst
in_list(x, lst) ==
    \E i \in 1..Len(lst) : lst[i] = x

\* lst.index(x), zero-based as in Python
index(lst, x) ==
    (CHOOSE i \in 1..Len(lst) : lst[i] = x /\ \A j \in 1..(i - 1) : lst[j] # x) - 1

\* lst.remove(x) : removes the first occurrence
remove(lst, x) ==
    LET i == index(lst, x) + 1
    IN  SubSeq(lst, 1, i - 1) \o SubSeq(lst, i + 1, Len(lst))

\* lst.insert(i, x) with a zero-based i in 0..len(lst)
insert(lst, i, x) ==
    SubSeq(lst, 1, i) \o <<x>> \o SubSeq(lst, i + 1, Len(lst))

\* ---------------------------------------------------------------------------
\* String literals of the source, character by character
\* ---------------------------------------------------------------------------
\* ---- string literals of src/military_squad_advisor/personalities.py ----
\* "Alright, let's assess the situation. "
LeaderInitialPrefix ==
    <<"A","l","r","i","g","h","t",","," ","l","e","t","'","s"," ","a","s","s","e","s","s"," ","t","h","e"," ","s","i","t","u","a","t","i","o","n","."," ">>
\* "\n\nMy initial read: This requires a balanced approach with clear objectives. Let me hear from the squad before making a final call."
LeaderInitialSuffix ==
    <<"\n","\n","M","y"," ","i","n","i","t","i","a","l"," ","r","e","a","d",":"," ","T","h","i","s"," ","r","e","q","u","i","r","e","s"," ","a"," ","b","a","l","a","n","c","e","d"," ","a","p","p","r","o","a","c","h"," ","w","i","t","h"," ","c","l","e","a","r"," ","o","b","j","e","c","t","i","v","e","s","."," ","L","e","t"," ","m","e"," ","h","e","a","r"," ","f","r","o","m"," ","t","h","e"," ","s","q","u","a","d"," ","b","e","f","o","r","e"," ","m","a","k","i","n","g"," ","a"," ","f","i","n","a","l"," ","c","a","l","l",".">>
\* "After considering all inputs from the squad, here's my decision:\n\n"
LeaderDecisionHead ==
    <<"A","f","t","e","r"," ","c","o","n","s","i","d","e","r","i","n","g"," ","a","l","l"," ","i","n","p","u","t","s"," ","f","r","o","m"," ","t","h","e"," ","s","q","u","a","d",","," ","h","e","r","e","'","s"," ","m","y"," ","d","e","c","i","s","i","o","n",":","\n","\n">>
\* "The tactical assessment has merit. "
AckTactical ==
    <<"T","h","e"," ","t","a","c","t","i","c","a","l"," ","a","s","s","e","s","s","m","e","n","t"," ","h","a","s"," ","m","e","r","i","t","."," ">>
\* "I've weighed the ethical considerations. "
AckMedic ==
    <<"I","'","v","e"," ","w","e","i","g","h","e","d"," ","t","h","e"," ","e","t","h","i","c","a","l"," ","c","o","n","s","i","d","e","r","a","t","i","o","n","s","."," ">>
\* "The intelligence gathered is valuable. "
AckScout ==
    <<"T","h","e"," ","i","n","t","e","l","l","i","g","e","n","c","e"," ","g","a","t","h","e","r","e","d"," ","i","s"," ","v","a","l","u","a","b","l","e","."," ">>
\* "The communication strategy is sound. "
AckComms ==
    <<"T","h","e"," ","c","o","m","m","u","n","i","c","a","t","i","o","n"," ","s","t","r","a","t","e","g","y"," ","i","s"," ","s","o","u","n","d","."," ">>
\* "\nMy final decision is to proceed with a direct approach, focusing on the primary objective while maintaining flexibility for unexpected developments. The squad will execute with precision and purpose. Any objections need to be voiced now, but be prepared to move on my command."
LeaderDecisionClose ==
    <<"\n","M","y"," ","f","i","n","a","l"," ","d","e","c","i","s","i","o","n"," ","i","s"," ","t","o"," ","p","r","o","c","e","e","d"," ","w","i","t","h"," ","a"," ","d","i","r","e","c","t"," ","a","p","p","r","o","a","c","h",","," ","f","o","c","u","s","i","n","g"," ","o","n"," ","t","h","e"," ","p","r","i","m","a","r","y"," ","o","b","j","e","c","t","i","v","e"," ","w","h","i","l","e"," ","m","a","i","n","t","a","i","n","i","n","g"," ","f","l","e","x","i","b","i","l","i","t","y"," ","f","o","r"," ","u","n","e","x","p","e","c","t","e","d"," ","d","e","v","e","l","o","p","m","e","n","t","s","."," ","T","h","e"," ","s","q","u","a","d"," ","w","i","l","l"," ","e","x","e","c","u","t","e"," ","w","i","t","h"," ","p","r","e","c","i","s","i","o","n"," ","a","n","d"," ","p","u","r","p","o","s","e","."," ","A","n","y"," ","o","b","j","e","c","t","i","o","n","s"," ","n","e","e","d"," ","t","o"," ","b","e"," ","v","o","i","c","e","d"," ","n","o","w",","," ","b","u","t"," ","b","e"," ","p","r","e","p","a","r","e","d"," ","t","o"," ","m","o","v","e"," ","o","n"," ","m","y"," ","c","o","m","m","a","n","d",".">>
\* "From a tactical perspective, I see multiple angles to consider:\n\n1. The approach suggested has a 65% probability of success based on similar scenarios.\n2. We should consider alternative entry points to mitigate potential risks.\n3. The timeline needs adjustment to account for unexpected variables.\n\n"
TacticalAnalysisHead ==
    <<"F","r","o","m"," ","a"," ","t","a","c","t","i","c","a","l"," ","p","e","r","s","p","e","c","t","i","v","e",","," ","I"," ","s","e","e"," ","m","u","l","t","i","p","l","e"," ","a","n","g","l","e","s"," ","t","o"," ","c","o","n","s","i","d","e","r",":","\n","\n","1","."," ","T","h","e"," ","a","p","p","r","o","a","c","h"," ","s","u","g","g","e","s","t","e","d"," ","h","a","s"," ","a"," ","6","5","%"," ","p","r","o","b","a","b","i","l","i","t","y"," ","o","f"," ","s","u","c","c","e","s","s"," ","b","a","s","e","d"," ","o","n"," ","s","i","m","i","l","a","r"," ","s","c","e","n","a","r","i","o","s",".","\n","2","."," ","W","e"," ","s","h","o","u","l","d"," ","c","o","n","s","i","d","e","r"," ","a","l","t","e","r","n","a","t","i","v","e"," ","e","n","t","r","y"," ","p","o","i","n","t","s"," ","t","o"," ","m","i","t","i","g","a","t","e"," ","p","o","t","e","n","t","i","a","l"," ","r","i","s","k","s",".","\n","3","."," ","T","h","e"," ","t","i","m","e","l","i","n","e"," ","n","e","e","d","s"," ","a","d","j","u","s","t","m","e","n","t"," ","t","o"," ","a","c","c","o","u","n","t"," ","f","o","r"," ","u","n","e","x","p","e","c","t","e","d"," ","v","a","r","i","a","b","l","e","s",".","\n","\n">>
\* "Commander, with respect, a more indirect approach may yield better results with fewer risks. We should consider a flanking maneuver rather than a head-on engagement."
TacticalChallengeClause ==
    <<"C","o","m","m","a","n","d","e","r",","," ","w","i","t","h"," ","r","e","s","p","e","c","t",","," ","a"," ","m","o","r","e"," ","i","n","d","i","r","e","c","t"," ","a","p","p","r","o","a","c","h"," ","m","a","y"," ","y","i","e","l","d"," ","b","e","t","t","e","r"," ","r","e","s","u","l","t","s"," ","w","i","t","h"," ","f","e","w","e","r"," ","r","i","s","k","s","."," ","W","e"," ","s","h","o","u","l","d"," ","c","o","n","s","i","d","e","r"," ","a"," ","f","l","a","n","k","i","n","g"," ","m","a","n","e","u","v","e","r"," ","r","a","t","h","e","r"," ","t","h","a","n"," ","a"," ","h","e","a","d","-","o","n"," ","e","n","g","a","g","e","m","e","n","t",".">>
\* "I concur with the core assessment, but recommend we establish secondary and tertiary contingencies to increase our operational flexibility."
TacticalConcurClause ==
    <<"I"," ","c","o","n","c","u","r"," ","w","i","t","h"," ","t","h","e"," ","c","o","r","e"," ","a","s","s","e","s","s","m","e","n","t",","," ","b","u","t"," ","r","e","c","o","m","m","e","n","d"," ","w","e"," ","e","s","t","a","b","l","i","s","h"," ","s","e","c","o","n","d","a","r","y"," ","a","n","d"," ","t","e","r","t","i","a","r","y"," ","c","o","n","t","i","n","g","e","n","c","i","e","s"," ","t","o"," ","i","n","c","r","e","a","s","e"," ","o","u","r"," ","o","p","e","r","a","t","i","o","n","a","l"," ","f","l","e","x","i","b","i","l","i","t","y",".">>
\* "Initial tactical assessment: This situation requires careful analysis before proceeding. I recommend we map out all variables and potential outcomes before committing to any course of action."
TacticalInitial ==
    <<"I","n","i","t","i","a","l"," ","t","a","c","t","i","c","a","l"," ","a","s","s","e","s","s","m","e","n","t",":"," ","T","h","i","s"," ","s","i","t","u","a","t","i","o","n"," ","r","e","q","u","i","r","e","s"," ","c","a","r","e","f","u","l"," ","a","n","a","l","y","s","i","s"," ","b","e","f","o","r","e"," ","p","r","o","c","e","e","d","i","n","g","."," ","I"," ","r","e","c","o","m","m","e","n","d"," ","w","e"," ","m","a","p"," ","o","u","t"," ","a","l","l"," ","v","a","r","i","a","b","l","e","s"," ","a","n","d"," ","p","o","t","e","n","t","i","a","l"," ","o","u","t","c","o","m","e","s"," ","b","e","f","o","r","e"," ","c","o","m","m","i","t","t","i","n","g"," ","t","o"," ","a","n","y"," ","c","o","u","r","s","e"," ","o","f"," ","a","c","t","i","o","n",".">>
\* "Looking at this from a humanitarian and ethical standpoint:\n\nWe need to consider the human elements at play. "
MedicAssessHead ==
    <<"L","o","o","k","i","n","g"," ","a","t"," ","t","h","i","s"," ","f","r","o","m"," ","a"," ","h","u","m","a","n","i","t","a","r","i","a","n"," ","a","n","d"," ","e","t","h","i","c","a","l"," ","s","t","a","n","d","p","o","i","n","t",":","\n","\n","W","e"," ","n","e","e","d"," ","t","o"," ","c","o","n","s","i","d","e","r"," ","t","h","e"," ","h","u","m","a","n"," ","e","l","e","m","e","n","t","s"," ","a","t"," ","p","l","a","y","."," ">>
\* "I have concerns about the aggressive tactical approach. We should minimize potential harm and consider more measured alternatives. Remember, our actions have consequences beyond the immediate mission."
MedicConcernClause ==
    <<"I"," ","h","a","v","e"," ","c","o","n","c","e","r","n","s"," ","a","b","o","u","t"," ","t","h","e"," ","a","g","g","r","e","s","s","i","v","e"," ","t","a","c","t","i","c","a","l"," ","a","p","p","r","o","a","c","h","."," ","W","e"," ","s","h","o","u","l","d"," ","m","i","n","i","m","i","z","e"," ","p","o","t","e","n","t","i","a","l"," ","h","a","r","m"," ","a","n","d"," ","c","o","n","s","i","d","e","r"," ","m","o","r","e"," ","m","e","a","s","u","r","e","d"," ","a","l","t","e","r","n","a","t","i","v","e","s","."," ","R","e","m","e","m","b","e","r",","," ","o","u","r"," ","a","c","t","i","o","n","s"," ","h","a","v","e"," ","c","o","n","s","e","q","u","e","n","c","e","s"," ","b","e","y","o","n","d"," ","t","h","e"," ","i","m","m","e","d","i","a","t","e"," ","m","i","s","s","i","o","n",".">>
\* "The tactical plan seems sound from an ethical perspective, though I'd suggest we build in additional safeguards for all involved parties."
MedicReassureClause ==
    <<"T","h","e"," ","t","a","c","t","i","c","a","l"," ","p","l","a","n"," ","s","e","e","m","s"," ","s","o","u","n","d"," ","f","r","o","m"," ","a","n"," ","e","t","h","i","c","a","l"," ","p","e","r","s","p","e","c","t","i","v","e",","," ","t","h","o","u","g","h"," ","I","'","d"," ","s","u","g","g","e","s","t"," ","w","e"," ","b","u","i","l","d"," ","i","n"," ","a","d","d","i","t","i","o","n","a","l"," ","s","a","f","e","g","u","a","r","d","s"," ","f","o","r"," ","a","l","l"," ","i","n","v","o","l","v","e","d"," ","p","a","r","t","i","e","s",".">>
\* "\n\nCommander, while I respect your authority, I must emphasize that we consider the wellbeing of all stakeholders in this scenario. Some situations call for patience rather than immediate action."
MedicCautionClause ==
    <<"\n","\n","C","o","m","m","a","n","d","e","r",","," ","w","h","i","l","e"," ","I"," ","r","e","s","p","e","c","t"," ","y","o","u","r"," ","a","u","t","h","o","r","i","t","y",","," ","I"," ","m","u","s","t"," ","e","m","p","h","a","s","i","z","e"," ","t","h","a","t"," ","w","e"," ","c","o","n","s","i","d","e","r"," ","t","h","e"," ","w","e","l","l","b","e","i","n","g"," ","o","f"," ","a","l","l"," ","s","t","a","k","e","h","o","l","d","e","r","s"," ","i","n"," ","t","h","i","s"," ","s","c","e","n","a","r","i","o","."," ","S","o","m","e"," ","s","i","t","u","a","t","i","o","n","s"," ","c","a","l","l"," ","f","o","r"," ","p","a","t","i","e","n","c","e"," ","r","a","t","h","e","r"," ","t","h","a","n"," ","i","m","m","e","d","i","a","t","e"," ","a","c","t","i","o","n",".">>
\* "\n\nI support the general direction, Commander, and appreciate the balanced approach you're taking with this situation."
MedicSupportClause ==
    <<"\n","\n","I"," ","s","u","p","p","o","r","t"," ","t","h","e"," ","g","e","n","e","r","a","l"," ","d","i","r","e","c","t","i","o","n",","," ","C","o","m","m","a","n","d","e","r",","," ","a","n","d"," ","a","p","p","r","e","c","i","a","t","e"," ","t","h","e"," ","b","a","l","a","n","c","e","d"," ","a","p","p","r","o","a","c","h"," ","y","o","u","'","r","e"," ","t","a","k","i","n","g"," ","w","i","t","h"," ","t","h","i","s"," ","s","i","t","u","a","t","i","o","n",".">>
\* "From an ethical standpoint, we should first consider the impacts on all involved. Any course of action we take should minimize harm and uphold our core principles."
MedicInitial ==
    <<"F","r","o","m"," ","a","n"," ","e","t","h","i","c","a","l"," ","s","t","a","n","d","p","o","i","n","t",","," ","w","e"," ","s","h","o","u","l","d"," ","f","i","r","s","t"," ","c","o","n","s","i","d","e","r"," ","t","h","e"," ","i","m","p","a","c","t","s"," ","o","n"," ","a","l","l"," ","i","n","v","o","l","v","e","d","."," ","A","n","y"," ","c","o","u","r","s","e"," ","o","f"," ","a","c","t","i","o","n"," ","w","e"," ","t","a","k","e"," ","s","h","o","u","l","d"," ","m","i","n","i","m","i","z","e"," ","h","a","r","m"," ","a","n","d"," ","u","p","h","o","l","d"," ","o","u","r"," ","c","o","r","e"," ","p","r","i","n","c","i","p","l","e","s",".">>
\* "Based on my observations:\n\nI'm seeing some details that might be overlooked. "
ScoutObsHead ==
    <<"B","a","s","e","d"," ","o","n"," ","m","y"," ","o","b","s","e","r","v","a","t","i","o","n","s",":","\n","\n","I","'","m"," ","s","e","e","i","n","g"," ","s","o","m","e"," ","d","e","t","a","i","l","s"," ","t","h","a","t"," ","m","i","g","h","t"," ","b","e"," ","o","v","e","r","l","o","o","k","e","d","."," ">>
\* "With all due respect to the command chain, the situation on the ground doesn't always match the tactical models. From what I can see, we should account for these practical considerations:\n\n1. The information presented has some gaps that could affect execution.\n2. Based on similar situations we've encountered, expect delays in the timeline.\n3. The conditions described will likely change rapidly once we engage.\n\nJust my two cents from the field, Commander."
ScoutTensionClause ==
    <<"W","i","t","h"," ","a","l","l"," ","d","u","e"," ","r","e","s","p","e","c","t"," ","t","o"," ","t","h","e"," ","c","o","m","m","a","n","d"," ","c","h","a","i","n",","," ","t","h","e"," ","s","i","t","u","a","t","i","o","n"," ","o","n"," ","t","h","e"," ","g","r","o","u","n","d"," ","d","o","e","s","n","'","t"," ","a","l","w","a","y","s"," ","m","a","t","c","h"," ","t","h","e"," ","t","a","c","t","i","c","a","l"," ","m","o","d","e","l","s","."," ","F","r","o","m"," ","w","h","a","t"," ","I"," ","c","a","n"," ","s","e","e",","," ","w","e"," ","s","h","o","u","l","d"," ","a","c","c","o","u","n","t"," ","f","o","r"," ","t","h","e","s","e"," ","p","r","a","c","t","i","c","a","l"," ","c","o","n","s","i","d","e","r","a","t","i","o","n","s",":","\n","\n","1","."," ","T","h","e"," ","i","n","f","o","r","m","a","t","i","o","n"," ","p","r","e","s","e","n","t","e","d"," ","h","a","s"," ","s","o","m","e"," ","g","a","p","s"," ","t","h","a","t"," ","c","o","u","l","d"," ","a","f","f","e","c","t"," ","e","x","e","c","u","t","i","o","n",".","\n","2","."," ","B","a","s","e","d"," ","o","n"," ","s","i","m","i","l","a","r"," ","s","i","t","u","a","t","i","o","n","s"," ","w","e","'","v","e"," ","e","n","c","o","u","n","t","e","r","e","d",","," ","e","x","p","e","c","t"," ","d","e","l","a","y","s"," ","i","n"," ","t","h","e"," ","t","i","m","e","l","i","n","e",".","\n","3","."," ","T","h","e"," ","c","o","n","d","i","t","i","o","n","s"," ","d","e","s","c","r","i","b","e","d"," ","w","i","l","l"," ","l","i","k","e","l","y"," ","c","h","a","n","g","e"," ","r","a","p","i","d","l","y"," ","o","n","c","e"," ","w","e"," ","e","n","g","a","g","e",".","\n","\n","J","u","s","t"," ","m","y"," ","t","w","o"," ","c","e","n","t","s"," ","f","r","o","m"," ","t","h","e"," ","f","i","e","l","d",","," ","C","o","m","m","a","n","d","e","r",".">>
\* "The situation appears straightforward from a ground perspective. I've observed similar patterns before, and they typically follow predictable paths. We should be prepared for standard complications but nothing extraordinary."
ScoutShortClause ==
    <<"T","h","e"," ","s","i","t","u","a","t","i","o","n"," ","a","p","p","e","a","r","s"," ","s","t","r","a","i","g","h","t","f","o","r","w","a","r","d"," ","f","r","o","m"," ","a"," ","g","r","o","u","n","d"," ","p","e","r","s","p","e","c","t","i","v","e","."," ","I","'","v","e"," ","o","b","s","e","r","v","e","d"," ","s","i","m","i","l","a","r"," ","p","a","t","t","e","r","n","s"," ","b","e","f","o","r","e",","," ","a","n","d"," ","t","h","e","y"," ","t","y","p","i","c","a","l","l","y"," ","f","o","l","l","o","w"," ","p","r","e","d","i","c","t","a","b","l","e"," ","p","a","t","h","s","."," ","W","e"," ","s","h","o","u","l","d"," ","b","e"," ","p","r","e","p","a","r","e","d"," ","f","o","r"," ","s","t","a","n","d","a","r","d"," ","c","o","m","p","l","i","c","a","t","i","o","n","s"," ","b","u","t"," ","n","o","t","h","i","n","g"," ","e","x","t","r","a","o","r","d","i","n","a","r","y",".">>
\* "Reporting what I see: This situation has several notable aspects that might influence our approach. I'll continue monitoring and provide updates as the picture develops."
ScoutInitial ==
    <<"R","e","p","o","r","t","i","n","g"," ","w","h","a","t"," ","I"," ","s","e","e",":"," ","T","h","i","s"," ","s","i","t","u","a","t","i","o","n"," ","h","a","s"," ","s","e","v","e","r","a","l"," ","n","o","t","a","b","l","e"," ","a","s","p","e","c","t","s"," ","t","h","a","t"," ","m","i","g","h","t"," ","i","n","f","l","u","e","n","c","e"," ","o","u","r"," ","a","p","p","r","o","a","c","h","."," ","I","'","l","l"," ","c","o","n","t","i","n","u","e"," ","m","o","n","i","t","o","r","i","n","g"," ","a","n","d"," ","p","r","o","v","i","d","e"," ","u","p","d","a","t","e","s"," ","a","s"," ","t","h","e"," ","p","i","c","t","u","r","e"," ","d","e","v","e","l","o","p","s",".">>
\* "direct approach"
kw_direct_approach ==
    <<"d","i","r","e","c","t"," ","a","p","p","r","o","a","c","h">>
\* "straightforward"
kw_straightforward ==
    <<"s","t","r","a","i","g","h","t","f","o","r","w","a","r","d">>
\* "attack", "aggressive", "force", "risk"
aggressive_words ==
    << <<"a","t","t","a","c","k">>,
       <<"a","g","g","r","e","s","s","i","v","e">>,
       <<"f","o","r","c","e">>,
       <<"r","i","s","k">> >>
\* ---- string literals of src/squad_logic.py ----
\* "risk", "danger", "uncertain", "casualties", "loss", "failure"
challenging_topics ==
    << <<"r","i","s","k">>,
       <<"d","a","n","g","e","r">>,
       <<"u","n","c","e","r","t","a","i","n">>,
       <<"c","a","s","u","a","l","t","i","e","s">>,
       <<"l","o","s","s">>,
       <<"f","a","i","l","u","r","e">> >>
\* "ethical", "moral", "concern", "civilian", "harm", "rights"
ethical_signals ==
    << <<"e","t","h","i","c","a","l">>,
       <<"m","o","r","a","l">>,
       <<"c","o","n","c","e","r","n">>,
       <<"c","i","v","i","l","i","a","n">>,
       <<"h","a","r","m">>,
       <<"r","i","g","h","t","s">> >>
\* "disagree", "contrary", "challenge", "different", "opposing"
disagreement_markers ==
    << <<"d","i","s","a","g","r","e","e">>,
       <<"c","o","n","t","r","a","r","y">>,
       <<"c","h","a","l","l","e","n","g","e">>,
       <<"d","i","f","f","e","r","e","n","t">>,
       <<"o","p","p","o","s","i","n","g">> >>
\* "challenge"
kw_challenge ==
    <<"c","h","a","l","l","e","n","g","e">>
\* "ethical"
kw_ethical ==
    <<"e","t","h","i","c","a","l">>
\* "\n\n**Follow-up:** "
FollowUpMarker ==
    <<"\n","\n","*","*","F","o","l","l","o","w","-","u","p",":","*","*"," ">>
\* "I've considered the tactical assessment, but we need to maintain mission focus. The concerns are noted but we'll proceed as planned with slight adjustments."
leader_followup ==
    <<"I","'","v","e"," ","c","o","n","s","i","d","e","r","e","d"," ","t","h","e"," ","t","a","c","t","i","c","a","l"," ","a","s","s","e","s","s","m","e","n","t",","," ","b","u","t"," ","w","e"," ","n","e","e","d"," ","t","o"," ","m","a","i","n","t","a","i","n"," ","m","i","s","s","i","o","n"," ","f","o","c","u","s","."," ","T","h","e"," ","c","o","n","c","e","r","n","s"," ","a","r","e"," ","n","o","t","e","d"," ","b","u","t"," ","w","e","'","l","l"," ","p","r","o","c","e","e","d"," ","a","s"," ","p","l","a","n","n","e","d"," ","w","i","t","h"," ","s","l","i","g","h","t"," ","a","d","j","u","s","t","m","e","n","t","s",".">>
\* "We can address the ethical concerns while maintaining tactical effectiveness. I'll incorporate these considerations into the revised approach."
tactical_followup ==
    <<"W","e"," ","c","a","n"," ","a","d","d","r","e","s","s"," ","t","h","e"," ","e","t","h","i","c","a","l"," ","c","o","n","c","e","r","n","s"," ","w","h","i","l","e"," ","m","a","i","n","t","a","i","n","i","n","g"," ","t","a","c","t","i","c","a","l"," ","e","f","f","e","c","t","i","v","e","n","e","s","s","."," ","I","'","l","l"," ","i","n","c","o","r","p","o","r","a","t","e"," ","t","h","e","s","e"," ","c","o","n","s","i","d","e","r","a","t","i","o","n","s"," ","i","n","t","o"," ","t","h","e"," ","r","e","v","i","s","e","d"," ","a","p","p","r","o","a","c","h",".">>
\* ---- the user inputs and crafted participant texts the model draws from ----
\* ""
In_empty ==
    <<>>
\* "What is the risk of failure in this operation?"
In_risk ==
    <<"W","h","a","t"," ","i","s"," ","t","h","e"," ","r","i","s","k"," ","o","f"," ","f","a","i","l","u","r","e"," ","i","n"," ","t","h","i","s"," ","o","p","e","r","a","t","i","o","n","?">>
\* "DANGER close"
In_upper ==
    <<"D","A","N","G","E","R"," ","c","l","o","s","e">>
\* "a b c d e f g h i j k l m n o"
In_15 ==
    <<"a"," ","b"," ","c"," ","d"," ","e"," ","f"," ","g"," ","h"," ","i"," ","j"," ","k"," ","l"," ","m"," ","n"," ","o">>
\* "a b c d e f g h i j k l m n o p"
In_16 ==
    <<"a"," ","b"," ","c"," ","d"," ","e"," ","f"," ","g"," ","h"," ","i"," ","j"," ","k"," ","l"," ","m"," ","n"," ","o"," ","p">>
\* " a  b\tc\nd e f g h i j k l m n o "
In_ws15 ==
    <<" ","a"," "," ","b","\t","c","\n","d"," ","e"," ","f"," ","g"," ","h"," ","i"," ","j"," ","k"," ","l"," ","m"," ","n"," ","o"," ">>
\* "Use a direct approach"
In_direct ==
    <<"U","s","e"," ","a"," ","d","i","r","e","c","t"," ","a","p","p","r","o","a","c","h">>
\* "We disagree"
In_disagree ==
    <<"W","e"," ","d","i","s","a","g","r","e","e">>
\* "Plan\n\n**Follow-up:** now"
In_marker ==
    <<"P","l","a","n","\n","\n","*","*","F","o","l","l","o","w","-","u","p",":","*","*"," ","n","o","w">>
\* "ok"
Mk_ok ==
    <<"o","k">>
\* "I Challenge that"
Mk_challenge ==
    <<"I"," ","C","h","a","l","l","e","n","g","e"," ","t","h","a","t">>
\* "Ethical harm"
Mk_ethical ==
    <<"E","t","h","i","c","a","l"," ","h","a","r","m">>
\* "some concern"
Mk_concern ==
    <<"s","o","m","e"," ","c","o","n","c","e","r","n">>
\* ---- further literals: CommunicationsSpecialist, get_final_decision, and
\* ---- texts for prior responses and stored messages
\* "From a communications perspective, here's what we're dealing with:\n\nThe way we frame and deliver our message will be critical here. "
CommsAssessHead ==
    <<"F","r","o","m"," ","a"," ","c","o","m","m","u","n","i","c","a","t","i","o","n","s"," ","p","e","r","s","p","e","c","t","i","v","e",","," ","h","e","r","e","'","s"," ","w","h","a","t"," ","w","e","'","r","e"," ","d","e","a","l","i","n","g"," ","w","i","t","h",":","\n","\n","T","h","e"," ","w","a","y"," ","w","e"," ","f","r","a","m","e"," ","a","n","d"," ","d","e","l","i","v","e","r"," ","o","u","r"," ","m","e","s","s","a","g","e"," ","w","i","l","l"," ","b","e"," ","c","r","i","t","i","c","a","l"," ","h","e","r","e","."," ">>
\* "I'm noticing some tension in our internal communications. We should align our messaging before engaging externally. A unified front with clear roles will strengthen our position."
CommsTensionClause ==
    <<"I","'","m"," ","n","o","t","i","c","i","n","g"," ","s","o","m","e"," ","t","e","n","s","i","o","n"," ","i","n"," ","o","u","r"," ","i","n","t","e","r","n","a","l"," ","c","o","m","m","u","n","i","c","a","t","i","o","n","s","."," ","W","e"," ","s","h","o","u","l","d"," ","a","l","i","g","n"," ","o","u","r"," ","m","e","s","s","a","g","i","n","g"," ","b","e","f","o","r","e"," ","e","n","g","a","g","i","n","g"," ","e","x","t","e","r","n","a","l","l","y","."," ","A"," ","u","n","i","f","i","e","d"," ","f","r","o","n","t"," ","w","i","t","h"," ","c","l","e","a","r"," ","r","o","l","e","s"," ","w","i","l","l"," ","s","t","r","e","n","g","t","h","e","n"," ","o","u","r"," ","p","o","s","i","t","i","o","n",".">>
\* "Our internal alignment is solid, which gives us an advantage. We should leverage this unity in our external communications."
CommsUnityClause ==
    <<"O","u","r"," ","i","n","t","e","r","n","a","l"," ","a","l","i","g","n","m","e","n","t"," ","i","s"," ","s","o","l","i","d",","," ","w","h","i","c","h"," ","g","i","v","e","s"," ","u","s"," ","a","n"," ","a","d","v","a","n","t","a","g","e","."," ","W","e"," ","s","h","o","u","l","d"," ","l","e","v","e","r","a","g","e"," ","t","h","i","s"," ","u","n","i","t","y"," ","i","n"," ","o","u","r"," ","e","x","t","e","r","n","a","l"," ","c","o","m","m","u","n","i","c","a","t","i","o","n","s",".">>
\* "\n\nI recommend a communication strategy that:\n1. Establishes clear channels with all stakeholders\n2. Uses active listening techniques to gather intelligence\n3. Adapts our tone and approach based on the other party's responses\n\n"
CommsStrategyList ==
    <<"\n","\n","I"," ","r","e","c","o","m","m","e","n","d"," ","a"," ","c","o","m","m","u","n","i","c","a","t","i","o","n"," ","s","t","r","a","t","e","g","y"," ","t","h","a","t",":","\n","1","."," ","E","s","t","a","b","l","i","s","h","e","s"," ","c","l","e","a","r"," ","c","h","a","n","n","e","l","s"," ","w","i","t","h"," ","a","l","l"," ","s","t","a","k","e","h","o","l","d","e","r","s","\n","2","."," ","U","s","e","s"," ","a","c","t","i","v","e"," ","l","i","s","t","e","n","i","n","g"," ","t","e","c","h","n","i","q","u","e","s"," ","t","o"," ","g","a","t","h","e","r"," ","i","n","t","e","l","l","i","g","e","n","c","e","\n","3","."," ","A","d","a","p","t","s"," ","o","u","r"," ","t","o","n","e"," ","a","n","d"," ","a","p","p","r","o","a","c","h"," ","b","a","s","e","d"," ","o","n"," ","t","h","e"," ","o","t","h","e","r"," ","p","a","r","t","y","'","s"," ","r","e","s","p","o","n","s","e","s","\n","\n">>
\* "Lt. Rodriguez's concern about risk factors should influence how we communicate. We should project confidence while avoiding overpromising on outcomes."
CommsRiskClause ==
    <<"L","t","."," ","R","o","d","r","i","g","u","e","z","'","s"," ","c","o","n","c","e","r","n"," ","a","b","o","u","t"," ","r","i","s","k"," ","f","a","c","t","o","r","s"," ","s","h","o","u","l","d"," ","i","n","f","l","u","e","n","c","e"," ","h","o","w"," ","w","e"," ","c","o","m","m","u","n","i","c","a","t","e","."," ","W","e"," ","s","h","o","u","l","d"," ","p","r","o","j","e","c","t"," ","c","o","n","f","i","d","e","n","c","e"," ","w","h","i","l","e"," ","a","v","o","i","d","i","n","g"," ","o","v","e","r","p","r","o","m","i","s","i","n","g"," ","o","n"," ","o","u","t","c","o","m","e","s",".">>
\* "Dr. Chen's ethical considerations should be woven into our messaging. We'll build more trust if we acknowledge the human elements at stake."
CommsEthicsClause ==
    <<"D","r","."," ","C","h","e","n","'","s"," ","e","t","h","i","c","a","l"," ","c","o","n","s","i","d","e","r","a","t","i","o","n","s"," ","s","h","o","u","l","d"," ","b","e"," ","w","o","v","e","n"," ","i","n","t","o"," ","o","u","r"," ","m","e","s","s","a","g","i","n","g","."," ","W","e","'","l","l"," ","b","u","i","l","d"," ","m","o","r","e"," ","t","r","u","s","t"," ","i","f"," ","w","e"," ","a","c","k","n","o","w","l","e","d","g","e"," ","t","h","e"," ","h","u","m","a","n"," ","e","l","e","m","e","n","t","s"," ","a","t"," ","s","t","a","k","e",".">>
\* "Initial communication assessment: How we approach the conversation here will set the tone. We should establish rapport first, then gather information before committing to a specific strategy."
CommsInitial ==
    <<"I","n","i","t","i","a","l"," ","c","o","m","m","u","n","i","c","a","t","i","o","n"," ","a","s","s","e","s","s","m","e","n","t",":"," ","H","o","w"," ","w","e"," ","a","p","p","r","o","a","c","h"," ","t","h","e"," ","c","o","n","v","e","r","s","a","t","i","o","n"," ","h","e","r","e"," ","w","i","l","l"," ","s","e","t"," ","t","h","e"," ","t","o","n","e","."," ","W","e"," ","s","h","o","u","l","d"," ","e","s","t","a","b","l","i","s","h"," ","r","a","p","p","o","r","t"," ","f","i","r","s","t",","," ","t","h","e","n"," ","g","a","t","h","e","r"," ","i","n","f","o","r","m","a","t","i","o","n"," ","b","e","f","o","r","e"," ","c","o","m","m","i","t","t","i","n","g"," ","t","o"," ","a"," ","s","p","e","c","i","f","i","c"," ","s","t","r","a","t","e","g","y",".">>
\* "disagree"
kw_disagree ==
    <<"d","i","s","a","g","r","e","e">>
\* "risk"
kw_risk ==
    <<"r","i","s","k">>
\* "The squad is still assessing the situation. Stand by for a decision."
FinalDecisionFallback ==
    <<"T","h","e"," ","s","q","u","a","d"," ","i","s"," ","s","t","i","l","l"," ","a","s","s","e","s","s","i","n","g"," ","t","h","e"," ","s","i","t","u","a","t","i","o","n","."," ","S","t","a","n","d"," ","b","y"," ","f","o","r"," ","a"," ","d","e","c","i","s","i","o","n",".">>
\* "The squad has differing perspectives on this matter."
ConsensusDescription ==
    <<"T","h","e"," ","s","q","u","a","d"," ","h","a","s"," ","d","i","f","f","e","r","i","n","g"," ","p","e","r","s","p","e","c","t","i","v","e","s"," ","o","n"," ","t","h","i","s"," ","m","a","t","t","e","r",".">>
\* "Take a direct approach"
Pt_direct ==
    <<"T","a","k","e"," ","a"," ","d","i","r","e","c","t"," ","a","p","p","r","o","a","c","h">>
\* "A Direct Approach, high RISK"
Pt_Direct_risk ==
    <<"A"," ","D","i","r","e","c","t"," ","A","p","p","r","o","a","c","h",","," ","h","i","g","h"," ","R","I","S","K">>
\* "hello"
Mem_hello ==
    <<"h","e","l","l","o">>
\* "Copy that"
Mem_reply ==
    <<"C","o","p","y"," ","t","h","a","t">>

\* ---------------------------------------------------------------------------
\* The inputs and the participants the model runs the orchestrator on
\* ---------------------------------------------------------------------------

UserInputs ==
    {In_empty, In_risk, In_upper, In_15, In_16, In_ws15, In_direct, In_disagree,
     In_marker}

\* the texts a crafted (duck-typed) participant may answer with
MockTexts ==
    {Mk_ok, Mk_challenge, Mk_ethical, Mk_concern}

\* the texts a crafted participant that also writes to its argument answers with
MutatingTexts ==
    {Mk_ok, Mk_ethical}

Roles ==
    {"leader", "tactical", "medic", "scout"}

\* how many entries the memory holds when the orchestrator is constructed
MaxHistory ==
    2

\* ---------------------------------------------------------------------------
\* ConversationMemory (src/memory.py)
\* ---------------------------------------------------------------------------

VARIABLES
    squad,
    memory,
    standard_speaking_order,
    pc,
    user_input,
    conversation_history,
    responses,
    iter_list,
    iter_pos,
    calls,
    complex,
    hierarchy,
    mutated,
    next_id,
    written,
    last_read,
    last_write,
    fn_call,
    fn_result,
    medic_signalled,
    messages,
    current_input,
    debate_active,
    debate_results,
    app_pc

\* the participants the orchestrator holds, whether one of them has changed
\* the dict it was handed in the current round, and whether medic's response
\* held an ethical signal in some completed call (ever) and in the last one
squad_vars ==
    <<hierarchy, mutated, medic_signalled>>

\* ConversationMemory beyond the rows: the AUTOINCREMENT sequence, the entries
\* written since the last clear, the last read and the last write
store_vars ==
    <<next_id, written, last_read, last_write>>

\* the last call of a pure method and what it gave
fn_vars ==
    <<fn_call, fn_result>>

\* st.session_state of the application, and where its script stands
app_vars ==
    <<messages, current_input, debate_active, debate_results, app_pc>>

vars ==
    <<squad, memory, standard_speaking_order, pc, user_input,
      conversation_history, responses, iter_list, iter_pos, calls, complex,
      hierarchy, mutated, next_id, written, last_read, last_write,
      fn_call, fn_result, medic_signalled, messages, current_input,
      debate_active, debate_results, app_pc>>

\* the default of get_conversation_history's limit parameter
DefaultLimit ==
    20

\* row n of the messages table of a conversation that alternates a user
\* message (add_user_message) and a response (add_ai_message)
message_row(n) ==
    IF n % 2 = 1
    THEN [id |-> n, timestamp |-> n, speaker |-> "User",
          message |-> In_risk, message_type |-> "user_input"]
    ELSE [id |-> n, timestamp |-> n, speaker |-> "Commander Harris",
          message |-> Mk_ok, message_type |-> "ai_response"]

\* get_conversation_history without the reversed(): newest first
get_conversation_history_newest_first(rows, limit) ==
    LET n == IF 0 <= limit /\ limit < Len(rows) THEN limit ELSE Len(rows)
    IN  [i \in 1..n |-> [timestamp |-> rows[Len(rows) + 1 - i].timestamp,
                         speaker |-> rows[Len(rows) + 1 - i].speaker,
                         content |-> rows[Len(rows) + 1 - i].message,
                         type |-> rows[Len(rows) + 1 - i].message_type]]

\* SELECT ... ORDER BY id DESC LIMIT limit, reversed to oldest-first, each row
\* as the dict the method builds
get_conversation_history(rows, limit) ==
    LET n == IF 0 <= limit /\ limit < Len(rows) THEN limit ELSE Len(rows)
        last == SubSeq(rows, Len(rows) - n + 1, Len(rows))
    IN  [i \in 1..n |-> [timestamp |-> last[i].timestamp,
                         speaker |-> last[i].speaker,
                         content |-> last[i].message,
                         type |-> last[i].message_type]]

\* INSERT INTO messages (timestamp, speaker, message, message_type) VALUES ...
\* the row gets the next value of the AUTOINCREMENT sequence as its id
insert_message(rows, id, timestamp, speaker, message, message_type) ==
    Append(rows, [id |-> id, timestamp |-> timestamp, speaker |-> speaker,
                  message |-> message, message_type |-> message_type])

add_user_message(rows, id, now, message) ==
    insert_message(rows, id, now, "User", message, "user_input")

\* add_ai_message binding the name to the message column and the message to
\* the speaker column
add_ai_message_swapped(rows, id, now, personality_name, message) ==
    insert_message(rows, id, now, message, personality_name, "ai_response")

add_ai_message(rows, id, now, personality_name, message) ==
    insert_message(rows, id, now, personality_name, message, "ai_response")

\* a clear that deletes all rows but the newest
clear_keeps_newest(rows) ==
    IF rows = <<>> THEN <<>> ELSE <<rows[Len(rows)]>>

\* DELETE FROM messages
clear(rows) ==
    <<>>

\* a read that deletes the rows it returns
memory_after_read_consuming(rows, limit) ==
    LET n == IF 0 <= limit /\ limit < Len(rows) THEN limit ELSE Len(rows)
    IN  SubSeq(rows, 1, Len(rows) - n)

\* the messages table after get_conversation_history: the method only SELECTs
memory_after_read(rows, limit) ==
    rows

\* the dict get_conversation_history builds of a row
entry_of(row) ==
    [timestamp |-> row.timestamp, speaker |-> row.speaker,
     content |-> row.message, type |-> row.message_type]

\* the limits get_conversation_history is called with
Limits ==
    {0, 1, 2, DefaultLimit}

\* the messages the caller stores
MemTexts ==
    {Mem_hello, Mem_reply}

\* Personality.name of the stock Leader
LeaderName ==
    "Commander Harris"

\* the value the AUTOINCREMENT sequence may reach
MaxId ==
    3

NoRead ==
    [done |-> FALSE, limit |-> 0, result |-> <<>>]

NoWrite ==
    [op |-> "none", speaker |-> "", message |-> <<>>, message_type |-> ""]

\* ---------------------------------------------------------------------------
\* The stock personalities (src/military_squad_advisor/personalities.py)
\* ---------------------------------------------------------------------------

\* the squad_responses argument: None, or a dict
\* shared tells whether the dict handed over is the caller's own dict object
\* (an alias) or a distinct object, as dict.copy() makes
NoneArg ==
    [none |-> TRUE, map |-> <<>>, shared |-> FALSE]

DictArg(d) ==
    [none |-> FALSE, map |-> d, shared |-> FALSE]

\* Python truthiness of squad_responses: None and {} are falsy
truthy(squad_responses) ==
    ~squad_responses.none /\ squad_responses.map # <<>>

Leader_generate_initial_assessment(ui) ==
    LeaderInitialPrefix \o ui \o LeaderInitialSuffix

\* the acknowledgment the decision template holds for a role
ack_clause(role) ==
    IF role = "tactical" THEN AckTactical
    ELSE IF role = "medic" THEN AckMedic
    ELSE IF role = "scout" THEN AckScout
    ELSE IF role = "comms" THEN AckComms
    ELSE <<>>

RECURSIVE acks_in_insertion_order(_)
acks_in_insertion_order(d) ==
    IF d = <<>>
    THEN <<>>
    ELSE ack_clause(d[1].key) \o acks_in_insertion_order(Tail(d))

\* the decision template acknowledging the roles in the order the dict holds them
Leader_generate_decision_insertion_order(squad_responses) ==
    LeaderDecisionHead
    \o acks_in_insertion_order(squad_responses.map)
    \o LeaderDecisionClose

Leader_generate_decision(squad_responses) ==
    LeaderDecisionHead
    \o (IF has_key(squad_responses.map, "tactical") THEN AckTactical ELSE <<>>)
    \o (IF has_key(squad_responses.map, "medic") THEN AckMedic ELSE <<>>)
    \o (IF has_key(squad_responses.map, "scout") THEN AckScout ELSE <<>>)
    \o (IF has_key(squad_responses.map, "comms") THEN AckComms ELSE <<>>)
    \o LeaderDecisionClose

\* Leader.generate_response with the test for prior responses inverted
Leader_generate_response_inverted(ui, history, squad_responses) ==
    IF truthy(squad_responses)
    THEN Leader_generate_initial_assessment(ui)
    ELSE Leader_generate_decision(squad_responses)

Leader_generate_response(ui, history, squad_responses) ==
    IF ~truthy(squad_responses)
    THEN Leader_generate_initial_assessment(ui)
    ELSE Leader_generate_decision(squad_responses)

\* _generate_tactical_analysis opening its challenge clause with the words
\* "I Challenge that"
TacticalPlanner_generate_tactical_analysis_challenging(leader_response) ==
    TacticalAnalysisHead
    \o (IF contains(kw_direct_approach, leader_response)
           \/ contains(kw_straightforward, leader_response)
        THEN Mk_challenge \o TacticalChallengeClause
        ELSE TacticalConcurClause)

TacticalPlanner_generate_tactical_analysis(leader_response) ==
    TacticalAnalysisHead
    \o (IF contains(kw_direct_approach, leader_response)
           \/ contains(kw_straightforward, leader_response)
        THEN TacticalChallengeClause
        ELSE TacticalConcurClause)

TacticalPlanner_generate_response(ui, history, squad_responses) ==
    IF truthy(squad_responses) /\ has_key(squad_responses.map, "leader")
    THEN TacticalPlanner_generate_tactical_analysis(get(squad_responses.map, "leader"))
    ELSE TacticalInitial

Medic_generate_ethical_assessment(squad_responses) ==
    MedicAssessHead
    \o (IF has_key(squad_responses.map, "squad_responses")
           /\ has_key(squad_responses.map, "tactical")
        THEN IF contains_any(aggressive_words, lower(get(squad_responses.map, "tactical")))
             THEN MedicConcernClause
             ELSE MedicReassureClause
        ELSE <<>>)
    \o (IF has_key(squad_responses.map, "leader")
        THEN IF contains(kw_direct_approach, get(squad_responses.map, "leader"))
             THEN MedicCautionClause
             ELSE MedicSupportClause
        ELSE <<>>)

Medic_generate_response(ui, history, squad_responses) ==
    IF truthy(squad_responses)
    THEN Medic_generate_ethical_assessment(squad_responses)
    ELSE MedicInitial

Scout_generate_observational_input(squad_responses) ==
    ScoutObsHead
    \o (IF Len(squad_responses.map) >= 2
        THEN ScoutTensionClause
        ELSE ScoutShortClause)

Scout_generate_response(ui, history, squad_responses) ==
    IF truthy(squad_responses)
    THEN Scout_generate_observational_input(squad_responses)
    ELSE ScoutInitial

CommunicationsSpecialist_generate_communication_assessment(squad_responses) ==
    CommsAssessHead
    \o (IF has_key(squad_responses.map, "leader") /\ has_key(squad_responses.map, "tactical")
        THEN IF contains(kw_disagree, lower(get(squad_responses.map, "tactical")))
                \/ contains(kw_challenge, lower(get(squad_responses.map, "tactical")))
             THEN CommsTensionClause
             ELSE CommsUnityClause
        ELSE <<>>)
    \o CommsStrategyList
    \o (IF has_key(squad_responses.map, "tactical")
           /\ contains(kw_risk, lower(get(squad_responses.map, "tactical")))
        THEN CommsRiskClause
        ELSE <<>>)
    \o (IF has_key(squad_responses.map, "medic")
           /\ contains(kw_ethical, lower(get(squad_responses.map, "medic")))
        THEN CommsEthicsClause
        ELSE <<>>)

CommunicationsSpecialist_generate_response(ui, history, squad_responses) ==
    IF truthy(squad_responses)
    THEN CommunicationsSpecialist_generate_communication_assessment(squad_responses)
    ELSE CommsInitial

\* The subscriptions squad_responses[key] of each personality: the call raises
\* KeyError when one of them is reached with the key missing.  Leader and Scout
\* subscript nothing.
TacticalPlanner_key_error(squad_responses) ==
    /\ truthy(squad_responses)
    /\ has_key(squad_responses.map, "leader")
    /\ ~has_key(squad_responses.map, "leader")

\* Medic reading squad_responses["leader"] without the test that guards it
Medic_key_error_unguarded(squad_responses) ==
    /\ truthy(squad_responses)
    /\ \/ /\ has_key(squad_responses.map, "squad_responses")
             /\ has_key(squad_responses.map, "tactical")
             /\ ~has_key(squad_responses.map, "tactical")
          \/ ~has_key(squad_responses.map, "leader")

Medic_key_error(squad_responses) ==
    /\ truthy(squad_responses)
    /\ \/ /\ has_key(squad_responses.map, "squad_responses")
             /\ has_key(squad_responses.map, "tactical")
             /\ ~has_key(squad_responses.map, "tactical")
          \/ /\ has_key(squad_responses.map, "leader")
             /\ ~has_key(squad_responses.map, "leader")

CommunicationsSpecialist_key_error(squad_responses) ==
    /\ truthy(squad_responses)
    /\ \/ /\ has_key(squad_responses.map, "leader")
             /\ has_key(squad_responses.map, "tactical")
             /\ ~has_key(squad_responses.map, "tactical")
          \/ /\ has_key(squad_responses.map, "tactical")
             /\ ~has_key(squad_responses.map, "tactical")
          \/ /\ has_key(squad_responses.map, "medic")
             /\ ~has_key(squad_responses.map, "medic")

\* ---------------------------------------------------------------------------
\* SquadDebate (src/squad_logic.py)
\* ---------------------------------------------------------------------------

\* self.hierarchy[role].generate_response(...): the stock personality's answer,
\* or any answer of a crafted participant
generate_response(kind, role, ui, history, squad_responses) ==
    IF kind = "mock" THEN MockTexts
    ELSE IF kind = "mutating" THEN MutatingTexts
    ELSE IF role = "leader" THEN {Leader_generate_response(ui, history, squad_responses)}
    ELSE IF role = "tactical" THEN {TacticalPlanner_generate_response(ui, history, squad_responses)}
    ELSE IF role = "medic" THEN {Medic_generate_response(ui, history, squad_responses)}
    ELSE IF role = "scout" THEN {Scout_generate_response(ui, history, squad_responses)}
    ELSE {CommunicationsSpecialist_generate_response(ui, history, squad_responses)}

\* whether generate_response of the stock personality raises instead of returning
stock_raises(role, squad_responses) ==
    IF role = "tactical" THEN TacticalPlanner_key_error(squad_responses)
    ELSE IF role = "medic" THEN Medic_key_error(squad_responses)
    ELSE IF role = "comms" THEN CommunicationsSpecialist_key_error(squad_responses)
    ELSE FALSE

\* what a participant that writes to the dict it was handed may do to it
Mutations ==
    {"none", "add", "remove", "overwrite"}

\* the dict after the participant's write: a new key, the first key deleted,
\* or the first key's text replaced
mutate(d, mut) ==
    IF mut = "add" THEN put(d, "comms", Mk_challenge)
    ELSE IF mut = "remove" THEN Tail(d)
    ELSE IF mut = "overwrite" THEN put(d, d[1].key, Mk_challenge)
    ELSE d

\* the writes open to the participant: only a crafted participant that was
\* handed a dict writes to it
mutations_of(kind, squad_responses) ==
    IF kind = "mutating" /\ ~squad_responses.none THEN Mutations ELSE {"none"}

\* the orchestrator's own responses dict after the participant's call: it
\* shows the participant's write only if the participant was handed that very
\* dict object
own_after_call(own, squad_responses, mut) ==
    IF squad_responses.shared THEN mutate(squad_responses.map, mut) ELSE own

\* the loop body passing the responses with the leader's follow-up already
\* appended to the leader's text
prior_arg_augmented(resp) ==
    IF resp # <<>>
    THEN DictArg(IF has_key(resp, "leader")
                 THEN put(resp, "leader",
                          get(resp, "leader") \o FollowUpMarker \o leader_followup)
                 ELSE resp)
    ELSE NoneArg

\* the loop body passing responses itself instead of responses.copy()
prior_arg_live(resp) ==
    IF resp # <<>> THEN [none |-> FALSE, map |-> resp, shared |-> TRUE] ELSE NoneArg

\* responses.copy() if responses else None
prior_arg(resp) ==
    IF resp # <<>> THEN DictArg(resp) ELSE NoneArg

should_challenge_leader(ui) ==
    contains_any(challenging_topics, lower(ui))

has_ethical_concerns(response) ==
    contains_any(ethical_signals, lower(response))

\* _adjust_speaking_order with the insert forgotten: the role is only removed
adjust_speaking_order_no_insert(order, priority_role) ==
    IF in_list(priority_role, order) THEN remove(order, priority_role) ELSE order

\* _adjust_speaking_order with the remove forgotten: the role is inserted twice
adjust_speaking_order_no_remove(order, priority_role) ==
    IF in_list(priority_role, order) /\ in_list("leader", order)
    THEN insert(order, index(order, "leader") + 1, priority_role)
    ELSE order

\* _adjust_speaking_order inserting at leader_index instead of leader_index + 1
adjust_speaking_order_before_leader(order, priority_role) ==
    IF in_list(priority_role, order)
    THEN LET removed == remove(order, priority_role)
             leader_index == IF in_list("leader", removed) THEN index(removed, "leader") ELSE -1
         IN  IF leader_index >= 0
             THEN insert(removed, leader_index, priority_role)
             ELSE order
    ELSE order

\* the value self.standard_speaking_order holds after _adjust_speaking_order
adjust_speaking_order(order, priority_role) ==
    IF in_list(priority_role, order)
    THEN LET removed == remove(order, priority_role)
             leader_index == IF in_list("leader", removed) THEN index(removed, "leader") ELSE -1
         IN  IF leader_index >= 0
             THEN insert(removed, leader_index + 1, priority_role)
             ELSE order
    ELSE order

\* _is_complex_situation with the word-count test off by one (>= 15)
is_complex_situation_ge15(ui, resp) ==
    LET has_disagreements ==
            \E i \in 1..Len(resp) : contains_any(disagreement_markers, lower(resp[i].val))
    IN  Len(split(ui)) >= 15 \/ has_disagreements

is_complex_situation(ui, resp) ==
    LET has_disagreements ==
            \E i \in 1..Len(resp) : contains_any(disagreement_markers, lower(resp[i].val))
    IN  Len(split(ui)) > 15 \/ has_disagreements

\* _add_follow_up_responses testing the tactical text without lower()
add_follow_up_responses_case_sensitive(resp) ==
    LET r1 == IF has_key(resp, "tactical") /\ contains(kw_challenge, get(resp, "tactical"))
              THEN put(resp, "leader",
                       get(resp, "leader") \o FollowUpMarker \o leader_followup)
              ELSE resp
    IN  IF has_key(r1, "medic") /\ contains(kw_ethical, lower(get(r1, "medic")))
        THEN put(r1, "tactical",
                 get(r1, "tactical") \o FollowUpMarker \o tactical_followup)
        ELSE r1

\* _add_follow_up_responses testing the medic text for any ethical signal
add_follow_up_responses_any_signal(resp) ==
    LET r1 == IF has_key(resp, "tactical") /\ contains(kw_challenge, lower(get(resp, "tactical")))
              THEN put(resp, "leader",
                       get(resp, "leader") \o FollowUpMarker \o leader_followup)
              ELSE resp
    IN  IF has_key(r1, "medic") /\ contains_any(ethical_signals, lower(get(r1, "medic")))
        THEN put(r1, "tactical",
                 get(r1, "tactical") \o FollowUpMarker \o tactical_followup)
        ELSE r1

\* the dict after _add_follow_up_responses has mutated it
add_follow_up_responses(resp) ==
    LET r1 == IF has_key(resp, "tactical") /\ contains(kw_challenge, lower(get(resp, "tactical")))
              THEN put(resp, "leader",
                       get(resp, "leader") \o FollowUpMarker \o leader_followup)
              ELSE resp
    IN  IF has_key(r1, "medic") /\ contains(kw_ethical, lower(get(r1, "medic")))
        THEN put(r1, "tactical",
                 get(r1, "tactical") \o FollowUpMarker \o tactical_followup)
        ELSE r1

\* get_final_decision testing the leader's text for truth instead of the key
\* for presence
get_final_decision_truthy(resp) ==
    IF has_key(resp, "leader") /\ get(resp, "leader") # <<>>
    THEN get(resp, "leader")
    ELSE FinalDecisionFallback

get_final_decision(resp) ==
    IF has_key(resp, "leader")
    THEN get(resp, "leader")
    ELSE FinalDecisionFallback

\* get_squad_consensus reporting a consensus when all four have responded
get_squad_consensus_full_squad(resp) ==
    LET full_squad == Len(resp) = 4
    IN  [exists |-> full_squad,
         strength |-> IF full_squad THEN "high" ELSE "low",
         description |-> ConsensusDescription]

get_squad_consensus(resp) ==
    LET full_squad == Len(resp) = 4
    IN  [exists |-> FALSE,
         strength |-> "low",
         description |-> ConsensusDescription]

\* the for statement reading the stored order anew at each position
loop_role_stored(lst, i) ==
    standard_speaking_order[i]

\* the for statement walking the list from its end
loop_role_reversed(lst, i) ==
    lst[Len(lst) + 1 - i]

\* the role the for statement of conduct_debate yields at position i of the
\* list object it iterates
loop_role(lst, i) ==
    lst[i]

DefaultOrder ==
    <<"leader", "tactical", "medic", "scout">>

\* the orchestrator writing each response to the memory itself
memory_after_response_persisting(rows, id, role, response) ==
    add_ai_message(rows, id, id, role, response)

\* the messages table after the loop body has stored a response: the body
\* writes the responses dict only
memory_after_response(rows, id, role, response) ==
    rows

\* no call of a single method is recorded
NoResult ==
    [done |-> FALSE, raised |-> FALSE, text |-> <<>>, consensus |-> "None",
     arg_after |-> NoneArg]

NoCall ==
    /\ fn_call = [fn |-> "none", role |-> "", ui |-> <<>>, arg |-> NoneArg]
    /\ fn_result = NoResult

\* the application's script has not run: st.session_state holds nothing yet
NoApp ==
    /\ messages = <<>>
    /\ current_input = <<>>
    /\ debate_active = FALSE
    /\ debate_results = "None"
    /\ app_pc = "not started"

\* the state SquadDebate.__init__ leaves, over a memory that already holds
\* 0..MaxHistory rows and with every participant given
Constructed ==
    /\ \E n \in 0..MaxHistory :
           /\ memory = [i \in 1..n |-> message_row(i)]
           /\ next_id = n + 1
           /\ written = [i \in 1..n |-> entry_of(message_row(i))]
    /\ hierarchy = [r \in Roles |-> "personality"]
    /\ standard_speaking_order = DefaultOrder
    /\ pc = "idle"
    /\ user_input = <<>>
    /\ conversation_history = <<>>
    /\ responses = <<>>
    /\ iter_list = <<>>
    /\ iter_pos = 0
    /\ calls = <<>>
    /\ complex = FALSE
    /\ mutated = FALSE
    /\ medic_signalled = [ever |-> FALSE, last |-> FALSE]
    /\ last_read = NoRead
    /\ last_write = NoWrite

\* SquadDebate.__init__ with the stock personalities or crafted participants
Init ==
    /\ squad \in {"stock", "mock"}
    /\ Constructed
    /\ NoCall
    /\ NoApp

\* conduct_debate, up to the for statement: the history is read, responses is
\* the empty dict and the loop binds the list standard_speaking_order refers to
conduct_debate_begin_on(inputs) ==
    /\ pc \in {"idle", "returned"}
    /\ \E ui \in inputs : user_input' = ui
    /\ conversation_history' = get_conversation_history(memory, DefaultLimit)
    /\ memory' = memory_after_read(memory, DefaultLimit)
    /\ responses' = <<>>
    /\ iter_list' = standard_speaking_order
    /\ iter_pos' = 1
    /\ calls' = <<>>
    /\ complex' = FALSE
    /\ mutated' = FALSE
    /\ pc' = "loop"
    /\ UNCHANGED <<squad, standard_speaking_order, hierarchy, medic_signalled>>
    /\ UNCHANGED <<store_vars, fn_vars, app_vars>>

\* conduct_debate called on any of the user inputs
conduct_debate_begin ==
    conduct_debate_begin_on(UserInputs)

\* one iteration of the for loop: the participant answers, the answer is
\* stored, and the reordering trigger of that role is applied
conduct_debate_iteration ==
    /\ pc = "loop"
    /\ iter_pos <= Len(iter_list)
    /\ hierarchy[loop_role(iter_list, iter_pos)] # "None"
    /\ LET role == loop_role(iter_list, iter_pos)
           prior == prior_arg(responses)
       IN  \E response \in generate_response(squad, role, user_input, conversation_history, prior) :
           \E mut \in mutations_of(squad, prior) :
               /\ responses' = put(own_after_call(responses, prior, mut), role, response)
               /\ calls' = Append(calls, [role |-> role, prior |-> prior, response |-> response])
               /\ mutated' = (mutated \/ mut # "none")
               /\ memory' = memory_after_response(memory, next_id, role, response)
               /\ standard_speaking_order' =
                      IF role = "leader" /\ should_challenge_leader(user_input)
                      THEN adjust_speaking_order(standard_speaking_order, "tactical")
                      ELSE IF role = "medic" /\ has_ethical_concerns(response)
                           THEN adjust_speaking_order(standard_speaking_order, "medic")
                           ELSE standard_speaking_order
    /\ iter_pos' = iter_pos + 1
    /\ UNCHANGED <<squad, pc, user_input, conversation_history, iter_list, complex,
                   hierarchy, medic_signalled>>
    /\ UNCHANGED <<store_vars, fn_vars, app_vars>>

\* the loop reaches a role whose participant is None: personality.generate_response
\* raises AttributeError and conduct_debate ends without returning
conduct_debate_attribute_error ==
    /\ pc = "loop"
    /\ iter_pos <= Len(iter_list)
    /\ hierarchy[loop_role(iter_list, iter_pos)] = "None"
    /\ pc' = "attribute_error"
    /\ UNCHANGED <<squad, memory, standard_speaking_order, user_input,
                   conversation_history, responses, iter_list, iter_pos, calls, complex>>
    /\ UNCHANGED <<squad_vars, store_vars, fn_vars, app_vars>>

\* the end of conduct_debate: the loop is exhausted, the follow-ups are added
\* when the situation is complex, and responses is returned
conduct_debate_return ==
    /\ pc = "loop"
    /\ iter_pos > Len(iter_list)
    /\ complex' = is_complex_situation(user_input, responses)
    /\ responses' = IF complex' THEN add_follow_up_responses(responses) ELSE responses
    /\ pc' = "returned"
    /\ LET signalled == \E k \in 1..Len(calls) :
                             /\ calls[k].role = "medic"
                             /\ has_ethical_concerns(calls[k].response)
       IN  medic_signalled' = [ever |-> medic_signalled.ever \/ signalled,
                               last |-> signalled]
    /\ UNCHANGED <<squad, memory, standard_speaking_order, user_input,
                   conversation_history, iter_list, iter_pos, calls, hierarchy, mutated>>
    /\ UNCHANGED <<store_vars, fn_vars, app_vars>>

Next ==
    \/ conduct_debate_begin
    \/ conduct_debate_iteration
    \/ conduct_debate_return

Spec ==
    Init /\ [][Next]_vars

\* ---------------------------------------------------------------------------
\* The caller using ConversationMemory between rounds (src/memory.py)
\* ---------------------------------------------------------------------------

ConversationMemory_add_user_message ==
    /\ pc \in {"idle", "returned"}
    /\ next_id <= MaxId
    /\ \E message \in MemTexts :
           /\ memory' = add_user_message(memory, next_id, next_id, message)
           /\ written' = Append(written, [timestamp |-> next_id, speaker |-> "User",
                                          content |-> message, type |-> "user_input"])
           /\ last_write' = [op |-> "add_user_message", speaker |-> "User",
                             message |-> message, message_type |-> "user_input"]
    /\ next_id' = next_id + 1
    /\ last_read' = NoRead
    /\ UNCHANGED <<squad, standard_speaking_order, pc, user_input, conversation_history,
                   responses, iter_list, iter_pos, calls, complex>>
    /\ UNCHANGED <<squad_vars, fn_vars, app_vars>>

ConversationMemory_add_ai_message ==
    /\ pc \in {"idle", "returned"}
    /\ next_id <= MaxId
    /\ \E message \in MemTexts :
           /\ memory' = add_ai_message(memory, next_id, next_id, LeaderName, message)
           /\ written' = Append(written, [timestamp |-> next_id, speaker |-> LeaderName,
                                          content |-> message, type |-> "ai_response"])
           /\ last_write' = [op |-> "add_ai_message", speaker |-> LeaderName,
                             message |-> message, message_type |-> "ai_response"]
    /\ next_id' = next_id + 1
    /\ last_read' = NoRead
    /\ UNCHANGED <<squad, standard_speaking_order, pc, user_input, conversation_history,
                   responses, iter_list, iter_pos, calls, complex>>
    /\ UNCHANGED <<squad_vars, fn_vars, app_vars>>

ConversationMemory_clear ==
    /\ pc \in {"idle", "returned"}
    /\ memory' = clear(memory)
    /\ written' = <<>>
    /\ last_write' = [op |-> "clear", speaker |-> "", message |-> <<>>, message_type |-> ""]
    /\ last_read' = NoRead
    /\ UNCHANGED <<squad, standard_speaking_order, pc, user_input, conversation_history,
                   responses, iter_list, iter_pos, calls, complex, next_id>>
    /\ UNCHANGED <<squad_vars, fn_vars, app_vars>>

ConversationMemory_get_conversation_history ==
    /\ pc \in {"idle", "returned"}
    /\ \E limit \in Limits :
           /\ last_read' = [done |-> TRUE, limit |-> limit,
                            result |-> get_conversation_history(memory, limit)]
           /\ memory' = memory_after_read(memory, limit)
    /\ UNCHANGED <<squad, standard_speaking_order, pc, user_input,
                   conversation_history, responses, iter_list, iter_pos, calls, complex,
                   next_id, written, last_write>>
    /\ UNCHANGED <<squad_vars, fn_vars, app_vars>>

\* the stock squad's orchestrator and the memory it was constructed over
InitMem ==
    /\ squad = "stock"
    /\ Constructed
    /\ NoCall
    /\ NoApp

NextMem ==
    \/ conduct_debate_begin_on({In_risk})
    \/ conduct_debate_iteration
    \/ conduct_debate_return
    \/ ConversationMemory_add_user_message
    \/ ConversationMemory_add_ai_message
    \/ ConversationMemory_clear
    \/ ConversationMemory_get_conversation_history

SpecMem ==
    InitMem /\ [][NextMem]_vars

\* ---------------------------------------------------------------------------
\* A round with participants that write to the dict they are handed
\* ---------------------------------------------------------------------------

\* SquadDebate.__init__ with four crafted participants whose generate_response
\* may add, delete or overwrite a key of its squad_responses argument
InitSnap ==
    /\ squad = "mutating"
    /\ Constructed
    /\ NoCall
    /\ NoApp

NextSnap ==
    \/ conduct_debate_begin
    \/ conduct_debate_iteration
    \/ conduct_debate_return

SpecSnap ==
    InitSnap /\ [][NextSnap]_vars

\* ---------------------------------------------------------------------------
\* Single calls of generate_response and get_final_decision
\* ---------------------------------------------------------------------------

\* the keys a squad_responses dict is built of: the five role identifiers and
\* the key personalities.py:228 tests for
PriorKeys ==
    {"leader", "tactical", "medic", "scout", "comms", "squad_responses"}

\* the texts stored under the keys
PriorTexts ==
    {Mk_ok, Pt_direct, Pt_Direct_risk}

\* how many keys the dicts built in every insertion order have
MaxPriorKeys ==
    2

\* the dicts of n distinct keys, in every insertion order, with every choice
\* of texts
dicts_of(n) ==
    {[i \in 1..n |-> [key |-> ks[i], val |-> vs[i]]] :
        ks \in {f \in [1..n -> PriorKeys] :
                   \A i, j \in 1..n : i # j => f[i] # f[j]},
        vs \in [1..n -> PriorTexts]}

\* the dicts over each subset of the five role identifiers, one text throughout
subset_dicts ==
    {LET present == SelectSeq(<<"leader", "tactical", "medic", "scout", "comms">>,
                              LAMBDA k : k \in sub)
     IN  [i \in 1..Len(present) |-> [key |-> present[i], val |-> t]] :
        sub \in SUBSET {"leader", "tactical", "medic", "scout", "comms"},
        t \in PriorTexts}

\* the squad_responses arguments: None, {} and the dicts above
Priors ==
    {NoneArg}
    \cup {DictArg(d) : d \in UNION {dicts_of(n) : n \in 0..MaxPriorKeys}}
    \cup {DictArg(d) : d \in subset_dicts}

\* the user inputs of the single calls
FnUserInputs ==
    {In_empty, In_direct}

\* the calls: generate_response of each stock personality, and
\* get_final_decision and get_squad_consensus on a dict, one of them with an
\* empty leader text
FnCalls ==
    {[fn |-> "generate_response", role |-> role, ui |-> ui, arg |-> arg] :
        role \in Roles \cup {"comms"}, ui \in FnUserInputs, arg \in Priors}
    \cup {[fn |-> fn, role |-> "", ui |-> <<>>, arg |-> arg] :
             fn \in {"get_final_decision", "get_squad_consensus"},
             arg \in (Priors \ {NoneArg})
                     \cup {DictArg(<<[key |-> "leader", val |-> <<>>]>>)}}

\* the stock squad, the memory empty, and a call about to be made
InitFn ==
    /\ squad = "stock"
    /\ Constructed
    /\ memory = <<>>
    /\ fn_call \in FnCalls
    /\ fn_result = NoResult
    /\ NoApp

\* personality.generate_response(user_input, conversation_history, squad_responses):
\* the text returned or the KeyError raised; the argument is only read
call_generate_response ==
    /\ fn_call.fn = "generate_response"
    /\ ~fn_result.done
    /\ \E text \in generate_response(squad, fn_call.role, fn_call.ui,
                                     conversation_history, fn_call.arg) :
           fn_result' = [done |-> TRUE,
                         raised |-> stock_raises(fn_call.role, fn_call.arg),
                         text |-> IF stock_raises(fn_call.role, fn_call.arg)
                                  THEN <<>>
                                  ELSE text,
                         consensus |-> "None",
                         arg_after |-> fn_call.arg]
    /\ UNCHANGED <<squad, memory, standard_speaking_order, pc, user_input,
                   conversation_history, responses, iter_list, iter_pos, calls,
                   complex, fn_call>>
    /\ UNCHANGED <<squad_vars, store_vars, app_vars>>

\* debate.get_final_decision(responses): the dict is only read
call_get_final_decision ==
    /\ fn_call.fn = "get_final_decision"
    /\ ~fn_result.done
    /\ fn_result' = [done |-> TRUE,
                     raised |-> FALSE,
                     text |-> get_final_decision(fn_call.arg.map),
                     consensus |-> "None",
                     arg_after |-> fn_call.arg]
    /\ UNCHANGED <<squad, memory, standard_speaking_order, pc, user_input,
                   conversation_history, responses, iter_list, iter_pos, calls,
                   complex, fn_call>>
    /\ UNCHANGED <<squad_vars, store_vars, app_vars>>

\* debate.get_squad_consensus(responses): the dict is only read
call_get_squad_consensus ==
    /\ fn_call.fn = "get_squad_consensus"
    /\ ~fn_result.done
    /\ fn_result' = [done |-> TRUE,
                     raised |-> FALSE,
                     text |-> <<>>,
                     consensus |-> get_squad_consensus(fn_call.arg.map),
                     arg_after |-> fn_call.arg]
    /\ UNCHANGED <<squad, memory, standard_speaking_order, pc, user_input,
                   conversation_history, responses, iter_list, iter_pos, calls,
                   complex, fn_call>>
    /\ UNCHANGED <<squad_vars, store_vars, app_vars>>

NextFn ==
    \/ call_generate_response
    \/ call_get_final_decision
    \/ call_get_squad_consensus

SpecFn ==
    InitFn /\ [][NextFn]_vars

\* ---------------------------------------------------------------------------
\* Construction of the orchestrator
\* ---------------------------------------------------------------------------

\* the positional arguments of the calls SquadDebate(...): five arguments with
\* each participant an object or None, the call that leaves a participant out,
\* and the six-argument call of src/app.py
CtorCalls ==
    {<<l, t, m, s, "memory">> : l \in {"personality", "None"},
                                t \in {"personality", "None"},
                                m \in {"personality", "None"},
                                s \in {"personality", "None"}}
    \cup {<<"personality", "personality", "personality", "memory">>}
    \cup {<<"personality", "personality", "personality", "personality",
            "personality", "memory">>}

\* before SquadDebate(...) is called: no orchestrator, an empty memory
InitCtor ==
    /\ squad = "stock"
    /\ memory = <<>>
    /\ next_id = 1
    /\ written = <<>>
    /\ hierarchy = [r \in Roles |-> "unset"]
    /\ standard_speaking_order = <<>>
    /\ pc = "unconstructed"
    /\ user_input = <<>>
    /\ conversation_history = <<>>
    /\ responses = <<>>
    /\ iter_list = <<>>
    /\ iter_pos = 0
    /\ calls = <<>>
    /\ complex = FALSE
    /\ mutated = FALSE
    /\ medic_signalled = [ever |-> FALSE, last |-> FALSE]
    /\ last_read = NoRead
    /\ last_write = NoWrite
    /\ NoCall
    /\ NoApp

\* whether a call SquadDebate(...) raises TypeError: the signature has five
\* parameters besides self, none of them with a default
SquadDebate_init_raises(args) ==
    Len(args) # 5

\* SquadDebate.__init__(self, leader, tactical_planner, medic, scout, memory):
\* a call with another number of arguments raises TypeError; otherwise the
\* arguments are stored as they are, None included.  fn_call keeps the call.
SquadDebate_init ==
    /\ pc = "unconstructed"
    /\ \E args \in CtorCalls :
           /\ fn_call' = [fn |-> "SquadDebate", role |-> "", ui |-> <<>>, arg |-> args]
           /\ IF SquadDebate_init_raises(args)
              THEN /\ pc' = "type_error"
                   /\ UNCHANGED <<hierarchy, standard_speaking_order>>
              ELSE /\ hierarchy' = [r \in Roles |->
                                       IF r = "leader" THEN args[1]
                                       ELSE IF r = "tactical" THEN args[2]
                                       ELSE IF r = "medic" THEN args[3]
                                       ELSE args[4]]
                   /\ standard_speaking_order' = DefaultOrder
                   /\ pc' = "idle"
    /\ UNCHANGED <<squad, memory, user_input, conversation_history, responses,
                   iter_list, iter_pos, calls, complex, mutated, medic_signalled>>
    /\ UNCHANGED <<store_vars, fn_result, app_vars>>

NextCtor ==
    \/ SquadDebate_init
    \/ conduct_debate_begin
    \/ conduct_debate_iteration
    \/ conduct_debate_attribute_error
    \/ conduct_debate_return

SpecCtor ==
    InitCtor /\ [][NextCtor]_vars

\* ---------------------------------------------------------------------------
\* The application (src/app.py)
\* ---------------------------------------------------------------------------

\* personality.name of the member of st.session_state.squad
personality_name(member) ==
    IF member = "leader" THEN LeaderName
    ELSE IF member = "tactical" THEN "Lt. Rodriguez"
    ELSE IF member = "medic" THEN "Dr. Chen"
    ELSE IF member = "scout" THEN "Specialist Patel"
    ELSE "Sgt. Morgan"

\* the arguments of the application's call SquadDebate(leader=..., ...,
\* comms_specialist=..., memory=...)
AppCtorCall ==
    <<"personality", "personality", "personality", "personality", "personality",
      "memory">>

\* the script accepting a prompt whatever debate_active is
accepts_while_active(prompt, active) ==
    prompt # <<>>

\* if prompt and not st.session_state.debate_active
accepts(prompt, active) ==
    prompt # <<>> /\ ~active

\* the page is rendered for the first time: the session state is initialised,
\* the database file may hold the rows of earlier sessions, no SquadDebate
\* exists
InitApp ==
    /\ squad = "stock"
    /\ \E n \in 0..MaxHistory :
           /\ memory = [i \in 1..n |-> message_row(i)]
           /\ next_id = n + 1
           /\ written = [i \in 1..n |-> entry_of(message_row(i))]
    /\ hierarchy = [r \in Roles |-> "unset"]
    /\ standard_speaking_order = <<>>
    /\ pc = "unconstructed"
    /\ user_input = <<>>
    /\ conversation_history = <<>>
    /\ responses = <<>>
    /\ iter_list = <<>>
    /\ iter_pos = 0
    /\ calls = <<>>
    /\ complex = FALSE
    /\ mutated = FALSE
    /\ medic_signalled = [ever |-> FALSE, last |-> FALSE]
    /\ last_read = NoRead
    /\ last_write = NoWrite
    /\ NoCall
    /\ messages = <<>>
    /\ current_input = <<>>
    /\ debate_active = FALSE
    /\ debate_results = "None"
    /\ app_pc = "waiting"

\* a prompt arrives from st.chat_input and the script runs: an accepted prompt
\* is shown, kept as current_input and stored, the debate is marked active and
\* st.rerun() is called.  A prompt that is not accepted falls through to the
\* debate block.  (The widget's disabled flag only takes effect once the page
\* is rendered again, so a prompt may arrive while a debate is active.)
app_chat_input ==
    /\ app_pc \in {"waiting", "exception"}
    /\ \E prompt \in UserInputs :
           IF accepts(prompt, debate_active)
           THEN /\ messages' = Append(messages, [role |-> "user", content |-> prompt])
                /\ current_input' = prompt
                /\ memory' = add_user_message(memory, next_id, next_id, prompt)
                /\ next_id' = next_id + 1
                /\ written' = Append(written, [timestamp |-> next_id, speaker |-> "User",
                                               content |-> prompt, type |-> "user_input"])
                /\ last_write' = [op |-> "add_user_message", speaker |-> "User",
                                  message |-> prompt, message_type |-> "user_input"]
                /\ last_read' = NoRead
                /\ debate_active' = TRUE
                /\ app_pc' = "rerun"
           ELSE /\ app_pc' = IF debate_active /\ debate_results = "None"
                             THEN "exception"
                             ELSE "waiting"
                /\ UNCHANGED <<messages, current_input, memory, debate_active>>
                /\ UNCHANGED store_vars
    /\ UNCHANGED <<squad, standard_speaking_order, pc, user_input, conversation_history,
                   responses, iter_list, iter_pos, calls, complex, debate_results>>
    /\ UNCHANGED <<squad_vars, fn_vars>>

\* the Clear Conversation button: the message list and the memory are emptied
\* and st.rerun() is called
app_clear_conversation ==
    /\ app_pc \in {"waiting", "exception"}
    /\ messages' = <<>>
    /\ memory' = clear(memory)
    /\ written' = <<>>
    /\ last_write' = [op |-> "clear", speaker |-> "", message |-> <<>>, message_type |-> ""]
    /\ last_read' = NoRead
    /\ app_pc' = "rerun"
    /\ UNCHANGED <<squad, standard_speaking_order, pc, user_input, conversation_history,
                   responses, iter_list, iter_pos, calls, complex, next_id,
                   current_input, debate_active, debate_results>>
    /\ UNCHANGED <<squad_vars, fn_vars>>

\* the script runs again with a debate active and no results yet: the call
\* SquadDebate(...) of the debate block raises TypeError and the run ends
\* there, before conduct_debate, the loop over the results and the reset
app_rerun_debate ==
    /\ app_pc = "rerun"
    /\ debate_active /\ debate_results = "None"
    /\ SquadDebate_init_raises(AppCtorCall)
    /\ fn_call' = [fn |-> "SquadDebate", role |-> "", ui |-> <<>>, arg |-> AppCtorCall]
    /\ pc' = "type_error"
    /\ app_pc' = "exception"
    /\ UNCHANGED <<squad, memory, standard_speaking_order, user_input,
                   conversation_history, responses, iter_list, iter_pos, calls, complex,
                   fn_result, messages, current_input, debate_active, debate_results>>
    /\ UNCHANGED <<squad_vars, store_vars>>

\* the script runs again with no debate to process and ends at the footer
app_rerun_idle ==
    /\ app_pc = "rerun"
    /\ ~(debate_active /\ debate_results = "None")
    /\ app_pc' = "waiting"
    /\ UNCHANGED <<squad, memory, standard_speaking_order, pc, user_input,
                   conversation_history, responses, iter_list, iter_pos, calls, complex,
                   messages, current_input, debate_active, debate_results>>
    /\ UNCHANGED <<squad_vars, store_vars, fn_vars>>

NextApp ==
    \/ app_chat_input
    \/ app_clear_conversation
    \/ app_rerun_debate
    \/ app_rerun_idle

SpecApp ==
    InitApp /\ [][NextApp]_vars

\* Streamlit runs the script whenever st.rerun() was called
FairSpecApp ==
    SpecApp /\ WF_vars(app_rerun_debate) /\ WF_vars(app_rerun_idle)

\* ---------------------------------------------------------------------------
\* Properties
\* ---------------------------------------------------------------------------

\* the set of identifiers a dict has as keys
key_set(d) ==
    {d[i].key : i \in 1..Len(d)}

\* the text the participant of the role produced in the current round
Original(role) ==
    calls[CHOOSE k \in 1..Len(calls) : calls[k].role = role].response

\* a reordering trigger has fired in the current round
TriggerFired ==
    \E k \in 1..Len(calls) :
        \/ calls[k].role = "leader" /\ should_challenge_leader(user_input)
        \/ calls[k].role = "medic" /\ has_ethical_concerns(calls[k].response)

\* the step is the loop iteration in which medic speaks and its trigger fires
MedicTriggerStep ==
    /\ pc = "loop"
    /\ Len(calls') = Len(calls) + 1
    /\ calls'[Len(calls')].role = "medic"
    /\ has_ethical_concerns(calls'[Len(calls')].response)

\* the identifiers of a list other than x, in the list's order
without(lst, x) ==
    SelectSeq(lst, LAMBDA r : r # x)

\* the number of whitespace-separated tokens of s: the positions where a
\* non-whitespace character starts the string or follows whitespace
TokenCount(s) ==
    Cardinality({i \in 1..Len(s) :
                    /\ s[i] \notin Whitespace
                    /\ (i = 1 \/ s[i - 1] \in Whitespace)})

\* C1: with the stock participants every conduct_debate call, the first or a
\* later one, whatever the input and the history, returns a mapping whose keys
\* are exactly leader, tactical, medic, scout, each with a non-empty text.
C1_StockResultComplete ==
    (squad = "stock" /\ pc = "returned") =>
        /\ key_set(responses) = Roles
        /\ Len(responses) = 4
        /\ \A i \in 1..Len(responses) : responses[i].val # <<>>

\* a later call on the same orchestrator, on the empty input, has returned
C1_Witness ==
    /\ squad = "stock"
    /\ pc = "returned"
    /\ user_input = In_empty
    /\ iter_list # DefaultOrder

\* C2: in every reachable state the speaking order is a permutation of
\* leader, tactical, medic, scout.
C2_OrderIsPermutation ==
    /\ Len(standard_speaking_order) = 4
    /\ {standard_speaking_order[i] : i \in 1..4} = Roles

\* both triggers have fired over two rounds: the tactical trigger has just
\* reordered an order the medic trigger of an earlier round had left
C2_Witness ==
    /\ pc = "loop"
    /\ iter_list = <<"leader", "medic", "tactical", "scout">>
    /\ standard_speaking_order = DefaultOrder
    /\ Len(calls) = 1

\* C3: the speaking order at the start of each conduct_debate call is the
\* default order.
C3_OrderResetEachCall ==
    (pc = "loop" /\ iter_pos = 1) => iter_list = DefaultOrder

\* C4: a reordering trigger applied after a participant's turn leaves every
\* identifier that has already spoken at its position in the speaking order.
C4_SpokenNeverMoved ==
    [][(pc = "loop" /\ Len(calls') = Len(calls) + 1) =>
          \A r \in key_set(responses') :
              index(standard_speaking_order', r) = index(standard_speaking_order, r)]_vars

\* C5: in every round whose input holds a challenging topic, once leader has
\* spoken tactical directly follows leader in the speaking order and is the
\* participant invoked right after leader.
C5_TacticalInvokedAfterLeader ==
    (pc # "idle" /\ should_challenge_leader(user_input) /\ calls # <<>>) =>
        /\ calls[1].role = "leader"
        /\ Len(calls) = 1 =>
               index(standard_speaking_order, "tactical")
                   = index(standard_speaking_order, "leader") + 1
        /\ Len(calls) >= 2 => calls[2].role = "tactical"

C7_LeaderFirstNoPrior ==
    (pc # "idle" /\ iter_list = DefaultOrder /\ ~TriggerFired /\ calls # <<>>) =>
        /\ calls[1].role = "leader"
        /\ ~truthy(calls[1].prior)
        /\ calls[1].prior.map = <<>>

\* a round from the default order has completed without any trigger firing
C7_Witness ==
    /\ pc = "returned"
    /\ iter_list = DefaultOrder
    /\ ~TriggerFired
    /\ Len(calls) = 4

\* C8: the leader text returned is the text leader produced followed by the
\* leader follow-up clause when the situation is complex and tactical's text
\* contains "challenge" in any case, and the text leader produced otherwise.
C8_LeaderFollowUp ==
    pc = "returned" =>
        get(responses, "leader") =
            IF complex /\ contains(kw_challenge, lower(Original("tactical")))
            THEN Original("leader") \o FollowUpMarker \o leader_followup
            ELSE Original("leader")

\* a round has returned a leader text carrying the follow-up, tactical having
\* written "Challenge" with a capital
C8_Witness ==
    /\ pc = "returned"
    /\ complex
    /\ Original("tactical") = Mk_challenge
    /\ get(responses, "leader") # Original("leader")

\* C9: the tactical text returned is the text tactical produced followed once
\* by the tactical follow-up clause when the situation is complex and medic's
\* text contains "ethical" in any case, and the text tactical produced
\* otherwise; medic's and scout's texts are returned as produced.
C9_TacticalFollowUp ==
    pc = "returned" =>
        /\ get(responses, "tactical") =
               IF complex /\ contains(kw_ethical, lower(Original("medic")))
               THEN Original("tactical") \o FollowUpMarker \o tactical_followup
               ELSE Original("tactical")
        /\ get(responses, "medic") = Original("medic")
        /\ get(responses, "scout") = Original("scout")

\* a complex round in which medic raised a concern without the word "ethical"
\* has returned tactical's text as produced
C9_Witness ==
    /\ pc = "returned"
    /\ complex
    /\ Original("medic") = Mk_concern
    /\ get(responses, "tactical") = Original("tactical")

\* C10: the situation is complex exactly when the input has more than 15
\* whitespace-separated tokens or a produced response contains a disagreement
\* marker in any case; a 15-token input without a marker in any response is
\* not complex and a 16-token input always is.
C10_ComplexPredicate ==
    pc = "returned" =>
        /\ complex <=>
               \/ TokenCount(user_input) > 15
               \/ \E k \in 1..Len(calls) : \E m \in 1..Len(disagreement_markers) :
                      contains(disagreement_markers[m], lower(calls[k].response))
        /\ (user_input \in {In_15, In_ws15}
               /\ \A k \in 1..Len(calls) :
                      ~contains_any(disagreement_markers, lower(calls[k].response)))
               => ~complex
        /\ user_input = In_16 => complex

\* a round on a 15-token input with irregular whitespace and no marker in any
\* response has been found not complex
C10_Witness ==
    /\ pc = "returned"
    /\ user_input = In_ws15
    /\ ~complex
    /\ Len(calls) = 4

\* C11: conduct_debate, the participants' response generation included, leaves
\* the stored entries as they were: no step of a round changes the messages
\* table, whatever the caller stored before the round.
C11_ConductLeavesStore ==
    [][(pc = "loop" \/ pc' = "loop") =>
          /\ memory' = memory
          /\ next_id' = next_id]_vars

\* a round has returned over a memory the caller had written to, and the
\* history the round read is still what the memory holds
C11_Witness ==
    /\ pc = "returned"
    /\ last_write.op = "add_user_message"
    /\ memory # <<>>
    /\ conversation_history = get_conversation_history(memory, DefaultLimit)

\* the dict of the answers the first k invocations of the round returned, each
\* stored under its role in invocation order
RECURSIVE answers(_)
answers(k) ==
    IF k = 0
    THEN <<>>
    ELSE put(answers(k - 1), calls[k].role, calls[k].response)

\* C12: the mapping handed to a participant is a snapshot: whatever a
\* participant adds to, removes from or overwrites in the mapping it received,
\* every later participant is handed exactly the answers returned so far, and
\* the mapping conduct_debate returns holds exactly the answers returned (with
\* the follow-ups of a complex situation).
C12_PriorIsSnapshot ==
    squad = "mutating" =>
        /\ \A k \in 1..Len(calls) :
               /\ calls[k].prior.none = (k = 1)
               /\ calls[k].prior.map = answers(k - 1)
        /\ pc = "loop" => responses = answers(Len(calls))
        /\ pc = "returned" =>
               responses = IF complex
                           THEN add_follow_up_responses(answers(Len(calls)))
                           ELSE answers(Len(calls))

\* a round has returned in which a participant wrote to the mapping it was
\* handed
C12_Witness ==
    /\ squad = "mutating"
    /\ mutated
    /\ pc = "returned"
    /\ Len(calls) = 4

\* a single generate_response call of the stock personality of a role has
\* returned or raised
Responded(role) ==
    /\ fn_result.done
    /\ fn_call.fn = "generate_response"
    /\ fn_call.role = role

\* C13: Medic, handed a non-empty mapping with a tactical entry, answers with
\* exactly one of the two tactical clauses: the concern clause if the tactical
\* text holds attack, aggressive, force or risk in any case, the reassurance
\* clause otherwise.
C13_MedicTacticalClause ==
    (/\ Responded("medic")
     /\ truthy(fn_call.arg)
     /\ has_key(fn_call.arg.map, "tactical")) =>
        LET tactical == lower(get(fn_call.arg.map, "tactical"))
            aggressive == contains_any(aggressive_words, tactical)
        IN  /\ ~fn_result.raised
            /\ contains(MedicConcernClause, fn_result.text) = aggressive
            /\ contains(MedicReassureClause, fn_result.text) = ~aggressive

\* C14: TacticalPlanner, handed a mapping with a leader entry, appends the
\* challenge clause if and only if the leader's text holds "direct approach" or
\* "straightforward" in any case, and the concurrence clause otherwise; with
\* no leader entry it answers with the initial-tactical-thoughts template.
C14_TacticalChallengeAnyCase ==
    Responded("tactical") =>
        IF truthy(fn_call.arg) /\ has_key(fn_call.arg.map, "leader")
        THEN LET leader == lower(get(fn_call.arg.map, "leader"))
                 direct == \/ contains(kw_direct_approach, leader)
                           \/ contains(kw_straightforward, leader)
             IN  fn_result.text = TacticalAnalysisHead
                                  \o (IF direct
                                      THEN TacticalChallengeClause
                                      ELSE TacticalConcurClause)
        ELSE fn_result.text = TacticalInitial

\* C15: Leader answers with the initial-assessment template embedding the user
\* input when the mapping is absent or empty; for a non-empty mapping it
\* answers with the decision template holding one acknowledgment for exactly
\* those of tactical, medic, scout, comms that are keys, in that order whatever
\* the mapping's insertion order, and then the closing clause.
C15_LeaderTemplates ==
    Responded("leader") =>
        LET present == key_set(fn_call.arg.map)
        IN  IF fn_call.arg.none \/ fn_call.arg.map = <<>>
            THEN fn_result.text = LeaderInitialPrefix \o fn_call.ui \o LeaderInitialSuffix
            ELSE fn_result.text =
                     LeaderDecisionHead
                     \o (IF "tactical" \in present THEN AckTactical ELSE <<>>)
                     \o (IF "medic" \in present THEN AckMedic ELSE <<>>)
                     \o (IF "scout" \in present THEN AckScout ELSE <<>>)
                     \o (IF "comms" \in present THEN AckComms ELSE <<>>)
                     \o LeaderDecisionClose

\* Leader has answered a mapping that holds comms before tactical
C15_Witness ==
    /\ Responded("leader")
    /\ keys(fn_call.arg.map) = <<"comms", "tactical">>
    /\ fn_call.ui = In_direct

\* C16: each of the five stock participants, handed no mapping, the empty
\* mapping or a mapping over any subset of leader, tactical, medic, scout,
\* comms, returns a non-empty text and does not raise.
C16_NeverRaises ==
    (/\ fn_result.done
     /\ fn_call.fn = "generate_response"
     /\ key_set(fn_call.arg.map) \subseteq {"leader", "tactical", "medic", "scout", "comms"}) =>
        /\ ~fn_result.raised
        /\ fn_result.text # <<>>

\* Medic has answered a mapping that holds a tactical entry and no leader entry
C16_Witness ==
    /\ Responded("medic")
    /\ key_set(fn_call.arg.map) = {"tactical", "scout"}
    /\ fn_result.text # <<>>

\* C17: an orchestrator constructed with one of leader, tactical, medic, scout
\* absent or None fails at construction, and an orchestrator that was
\* constructed never fails in a round for a missing participant.
C17_FailFastAtConstruction ==
    /\ pc \notin {"unconstructed", "type_error"} =>
           \A r \in Roles : hierarchy[r] # "None"
    /\ pc # "attribute_error"

\* C18: get_final_decision returns the text stored under "leader" when the
\* mapping has that key and the fixed fallback text otherwise, the empty
\* mapping included; it does not raise and leaves the mapping as it was.
C18_FinalDecision ==
    (fn_result.done /\ fn_call.fn = "get_final_decision") =>
        /\ ~fn_result.raised
        /\ fn_result.arg_after = fn_call.arg
        /\ \A i \in 1..Len(fn_call.arg.map) :
               fn_call.arg.map[i].key = "leader" =>
                   fn_result.text = fn_call.arg.map[i].val
        /\ "leader" \notin key_set(fn_call.arg.map) =>
               fn_result.text = FinalDecisionFallback

\* get_final_decision has returned for the empty mapping
C18_Witness ==
    /\ fn_result.done
    /\ fn_call.fn = "get_final_decision"
    /\ fn_call.arg.map = <<>>
    /\ fn_result.text = FinalDecisionFallback

\* C19: after any appends and clears, get_conversation_history(limit) returns
\* the last min(limit, count) entries written since the most recent clear,
\* oldest first; all of them when fewer than limit exist, and 20 of 21 with
\* the default limit.
C19_RecentEntries ==
    /\ last_read.done =>
           LET n == IF last_read.limit < Len(written)
                    THEN last_read.limit
                    ELSE Len(written)
           IN  /\ Len(last_read.result) = n
               /\ \A i \in 1..n :
                      last_read.result[i] = written[Len(written) - n + i]
    /\ LET stored == [i \in 1..(DefaultLimit + 1) |-> message_row(i)]
           recent == get_conversation_history(stored, DefaultLimit)
       IN  /\ Len(recent) = 20
           /\ \A i \in 1..20 : recent[i] = entry_of(message_row(i + 1))

\* after a clear and two further appends, a read with limit 1 has returned
C19_Witness ==
    /\ last_read.done
    /\ last_read.limit = 1
    /\ Len(written) = 2
    /\ memory[1].id > 1

\* C20: after add_user_message or add_ai_message, the single most recent entry
\* read back has the speaker and the text that were appended, with speaker
\* "User" and type user_input, respectively type ai_response.
C20_RoundTrip ==
    last_write.op \in {"add_user_message", "add_ai_message"} =>
        LET recent == get_conversation_history(memory, 1)
        IN  /\ Len(recent) = 1
            /\ recent[1].speaker = last_write.speaker
            /\ recent[1].content = last_write.message
            /\ recent[1].type = last_write.message_type
            /\ last_write.op = "add_user_message" =>
                   recent[1].speaker = "User" /\ recent[1].type = "user_input"
            /\ last_write.op = "add_ai_message" => recent[1].type = "ai_response"
            /\ (last_read.done /\ last_read.limit = 1) => last_read.result = recent

\* a response was appended to a non-empty memory and read back with limit 1
C20_Witness ==
    /\ last_write.op = "add_ai_message"
    /\ Len(memory) >= 2
    /\ last_read.done
    /\ last_read.limit = 1

\* C21: after clear, get_conversation_history(N) returns the empty sequence
\* for every N >= 0 whatever was stored before, and clearing again leaves the
\* same empty store.
C21_ClearEmpties ==
    last_write.op = "clear" =>
        /\ memory = <<>>
        /\ last_read.done => last_read.result = <<>>
        /\ \A N \in 0..(DefaultLimit + 1) : get_conversation_history(memory, N) = <<>>
        /\ clear(memory) = memory

\* entries were stored, the store was cleared and then read
C21_Witness ==
    /\ last_write.op = "clear"
    /\ next_id > 1
    /\ last_read.done
    /\ last_read.limit = 2

\* C22: a read does not change the stored entries, and a second read with the
\* same limit, no append or clear in between, returns the same sequence as the
\* first.
C22_ReadIdempotent ==
    last_read.done =>
        /\ [i \in 1..Len(memory) |-> entry_of(memory[i])] = written
        /\ get_conversation_history(memory, last_read.limit) = last_read.result

\* the store holds two entries and one of them was read
C22_Witness ==
    /\ last_read.done
    /\ last_read.limit = 1
    /\ Len(last_read.result) = 1
    /\ Len(written) = 2

\* C23: get_squad_consensus returns the same result for every mapping, the
\* empty one and those of fewer or more than four entries included: exists
\* false, strength "low" and the fixed description.
C23_ConsensusFixed ==
    (fn_result.done /\ fn_call.fn = "get_squad_consensus") =>
        /\ ~fn_result.raised
        /\ fn_result.consensus.exists = FALSE
        /\ fn_result.consensus.strength = "low"
        /\ fn_result.consensus.description = ConsensusDescription
        /\ DOMAIN fn_result.consensus = {"exists", "strength", "description"}

\* get_squad_consensus has returned for a mapping of four entries
C23_Witness ==
    /\ fn_result.done
    /\ fn_call.fn = "get_squad_consensus"
    /\ Len(fn_call.arg.map) = 4
    /\ fn_result.consensus.description # <<>>

\* C24: constructing SquadDebate with the five personalities and a memory, as
\* the package's usage example and the application do, succeeds, so that
\* conduct_debate can be called on the orchestrator.
C24_FivePersonalitiesConstruct ==
    (/\ fn_call.fn = "SquadDebate"
     /\ fn_call.arg = <<"personality", "personality", "personality", "personality",
                        "personality", "memory">>) =>
        /\ pc # "type_error"
        /\ \A r \in Roles : hierarchy[r] = "personality"

\* C25: within a round each of the four identifiers is invoked exactly once,
\* one after another, and the k-th participant invoked is handed exactly the
\* k-1 identifiers that spoke before it in the round, in that order, each with
\* the text it originally produced, never a text with a follow-up.
C25_EachOnceWithOriginals ==
    /\ \A k \in 1..Len(calls) :
           /\ calls[k].prior.none = (k = 1)
           /\ keys(calls[k].prior.map) = [j \in 1..(k - 1) |-> calls[j].role]
           /\ \A j \in 1..(k - 1) :
                  /\ calls[k].prior.map[j].val = calls[j].response
                  /\ calls[j].role # calls[k].role
    /\ pc = "loop" => Len(calls) = iter_pos - 1
    /\ pc = "returned" =>
           /\ Len(calls) = 4
           /\ {calls[k].role : k \in 1..4} = Roles

\* a round has returned whose returned texts carry a follow-up
C25_Witness ==
    /\ pc = "returned"
    /\ complex
    /\ Len(calls) = 4
    /\ \E k \in 1..4 : get(responses, calls[k].role) # calls[k].response

C26_DebateCompletes ==
    debate_active ~> (/\ ~debate_active
                      /\ debate_results = "None"
                      /\ current_input = <<>>)

\* the responses of the debate result are the last messages shown and the last
\* rows stored, in the mapping's order, each under its personality's name
ResultsAppended ==
    /\ debate_results # "None"
    /\ LET n == Len(debate_results)
       IN  /\ Len(messages) >= n
           /\ Len(memory) >= n
           /\ \A i \in 1..n :
                  LET shown == messages[Len(messages) - n + i]
                      row == memory[Len(memory) - n + i]
                  IN  /\ shown.role = debate_results[i].key
                      /\ shown.content = debate_results[i].val
                      /\ row.speaker = personality_name(debate_results[i].key)
                      /\ row.message = debate_results[i].val
                      /\ row.message_type = "ai_response"

\* C27: in the application, every response of the debate result of an accepted
\* prompt is eventually appended, once each and in the mapping's order, to the
\* message list and to the memory as an ai_response entry under the
\* personality's name.
C27_ResponsesAppended ==
    debate_active ~> ResultsAppended

\* C28: in the application a user message is appended to the message list and
\* to the memory only when debate_active is False, and an accepted prompt
\* writes exactly one user_input entry, with the debate marked active from
\* then on; nothing else is written to the memory while a debate is active.
C28_PromptOnlyWhenIdle ==
    [][/\ (/\ Len(messages') > Len(messages)
           /\ messages'[Len(messages')].role = "user") =>
              /\ ~debate_active
              /\ debate_active'
              /\ Len(messages') = Len(messages) + 1
              /\ Len(memory') = Len(memory) + 1
              /\ memory'[Len(memory')].speaker = "User"
              /\ memory'[Len(memory')].message_type = "user_input"
              /\ memory'[Len(memory')].message = messages'[Len(messages')].content
              /\ current_input' = messages'[Len(messages')].content
       /\ Len(memory') > Len(memory) => ~debate_active
       /\ debate_active => debate_active']_vars

\* a prompt was accepted over a memory that held rows, and the script has run
\* again with the debate active
C28_Witness ==
    /\ debate_active
    /\ app_pc = "exception"
    /\ Len(messages) = 1
    /\ messages[1].role = "user"
    /\ Len(memory) = 3
    /\ memory[3].message = current_input

\* C31: in every reachable state leader is the first element of the stored
\* speaking order; so in every round, whichever triggers have fired before or
\* during it, the list the loop walks starts with leader, and the first
\* participant invoked is leader, called with None for the prior responses.
C31_LeaderHeadsStoredOrder ==
    /\ standard_speaking_order # <<>>
    /\ standard_speaking_order[1] = "leader"
    /\ pc # "idle" =>
           /\ iter_list # <<>>
           /\ iter_list[1] = "leader"
    /\ calls # <<>> =>
           /\ calls[1].role = "leader"
           /\ calls[1].prior = NoneArg
    /\ \A k \in 2..Len(calls) : calls[k].role # "leader"

\* a round started from an order both triggers had already changed, and leader
\* has answered in it after a trigger fired again
C31_Witness ==
    /\ pc = "loop"
    /\ iter_list = <<"leader", "medic", "tactical", "scout">>
    /\ standard_speaking_order # iter_list
    /\ Len(calls) >= 2
    /\ calls[1].role = "leader"

\* C32: in every round conducted with the stock participants the Leader's
\* answer is its initial-assessment template over the user's input and never
\* its final-decision template; so get_final_decision applied to the dict
\* conduct_debate returns is the initial-assessment text, alone or followed by
\* the leader follow-up, and never holds the final-decision template.
C32_StockLeaderInitialBranch ==
    squad = "stock" =>
        LET initial == Leader_generate_initial_assessment(user_input)
        IN  /\ \A k \in 1..Len(calls) :
                   calls[k].role = "leader" =>
                       /\ ~truthy(calls[k].prior)
                       /\ calls[k].response = initial
                       /\ calls[k].response # Leader_generate_decision(calls[k].prior)
            /\ pc = "returned" =>
                   /\ get_final_decision(responses)
                          \in {initial, initial \o FollowUpMarker \o leader_followup}
                   /\ ~contains(LeaderDecisionHead, get_final_decision(responses))
                   /\ get_final_decision(responses) # FinalDecisionFallback

\* a complex round of the stock squad, started from an order the triggers had
\* changed, has returned with the follow-ups added
C32_Witness ==
    /\ squad = "stock"
    /\ pc = "returned"
    /\ complex
    /\ iter_list # DefaultOrder
    /\ Len(calls) = 4
    /\ has_key(responses, "leader")

\* C33 as stated: with the stock participants the leader text conduct_debate
\* returns never contains the follow-up marker, whatever the user's input.
C33_LeaderTextMarkerFree ==
    (squad = "stock" /\ pc = "returned") =>
        ~contains(FollowUpMarker, get(responses, "leader"))

\* C33 amended: none of TacticalPlanner's templates contains "challenge" in any
\* case, so with the stock participants the leader follow-up is never appended:
\* the leader text conduct_debate returns is the text the Leader produced, and
\* it contains the follow-up marker only when the user's input, which the
\* Leader quotes, contains it; the tactical follow-up is appended exactly when
\* the complex-situation predicate is true, because every Medic template
\* contains "ethical".
C33_StockFollowUps ==
    /\ pc = "idle" =>
           /\ \A leader_response \in {<<>>, kw_direct_approach, kw_straightforward} :
                  ~contains(kw_challenge,
                            lower(TacticalPlanner_generate_tactical_analysis(leader_response)))
           /\ ~contains(kw_challenge, lower(TacticalInitial))
    /\ (squad = "stock" /\ pc = "returned") =>
           /\ ~contains(kw_challenge, lower(Original("tactical")))
           /\ contains(kw_ethical, lower(Original("medic")))
           /\ get(responses, "leader") = Original("leader")
           /\ contains(FollowUpMarker, get(responses, "leader"))
                  <=> contains(FollowUpMarker, user_input)
           /\ complex = is_complex_situation(
                            user_input,
                            [k \in 1..Len(calls) |->
                                [key |-> calls[k].role, val |-> calls[k].response]])
           /\ get(responses, "tactical") =
                  IF complex
                  THEN Original("tactical") \o FollowUpMarker \o tactical_followup
                  ELSE Original("tactical")

\* a complex round of the stock squad has returned the Leader's text as
\* produced and the planner's text with the tactical follow-up
C33_Witness ==
    /\ squad = "stock"
    /\ pc = "returned"
    /\ complex
    /\ Len(calls) = 4
    /\ get(responses, "leader") = Original("leader")
    /\ get(responses, "tactical") =
           Original("tactical") \o FollowUpMarker \o tactical_followup

====
